---------------------------- MODULE Spec2Model ----------------------------
(***************************************************************************)
(* Beta-expansion orbits of Perron numbers: the orbit engine               *)
(* (_single_orbit), its period detector, the periodic-envelope truncation, *)
(* the resume-time consistency check and the part of calc_orbits that      *)
(* drives one orbit through successive runs.                               *)
(*                                                                         *)
(* Numbers.  An mpf is a pair [man, exp] standing for man * 2^exp, as in   *)
(* mpmath.  Polynomials are coefficient tuples <<c_0, ..., c_{d-1}>> of    *)
(* the fixed length d = deg(min_poly) (an IntPolynomial of max degree      *)
(* d - 1).  Orbit indices are 1-based as in the source.                    *)
(*                                                                         *)
(* Stores.  A register's data for the orbit is the sequence of its disk    *)
(* blocks [startn, seg], ordered by startn.                                *)
(***************************************************************************)
EXTENDS Integers, Sequences, FiniteSets, TLC

(***************************************************************************)
(* Bounds of the model.                                                    *)
(***************************************************************************)
MaxBlkLen == 3
MaxOrbitLen == 6
MaxRuns == 3
\* the orbits handed to the period search: pre-periods 0..MaxPreperiod and
\* periods 1..MaxPeriod
MaxPreperiod == 4
MaxPeriod == 4
\* the group of orbits handed to the workers, and the number of workers
MaxOrbits == 3
MaxProcs == 3
\* the recurrence step on its own: coefficients -MaxCoef..MaxCoef and digits
\* 0..MaxCoef
MaxCoef == 2
\* calc_orbits_resetup: intervals a group may hold and calls in a row
MaxIntervals == 2
MaxCalls == 2
\* Int_Polynomial: _max_deg of the objects
MaxDeg == 1

(***************************************************************************)
(* Program constants.                                                      *)
(***************************************************************************)
base2_magn_max_max_abs_coef == 61
initial_y_prec == 16
PREC_INCREASE_FACTOR == 2

(***************************************************************************)
(* Inputs.  Each Perron number is a minimal polynomial (coefficient of x^0 *)
(* first) with the root approximation beta0 = man * 2^exp handed to        *)
(* Perron_Number.                                                          *)
(***************************************************************************)
Betas ==
  << [min_poly |-> <<1, -3, 1>>,         man |-> 21, exp |-> -3],
     [min_poly |-> <<-1, -1, 1>>,        man |-> 13, exp |-> -3],
     [min_poly |-> <<-1, -1, 1>>,        man |-> 12, exp |-> -3],
     [min_poly |-> <<-1, 2, -3, 1>>,     man |-> 74, exp |-> -5],
     [min_poly |-> <<2, 0, -1, -3, 1>>,  man |-> 26, exp |-> -3],
     [min_poly |-> <<-3, -1, 1>>,        man |-> 18, exp |-> -3],
     [min_poly |-> <<2, -3, 1>>,         man |-> 14, exp |-> -3],
     [min_poly |-> <<1, -3, 1>>,         man |-> 1,  exp |-> 60],
     [min_poly |-> <<-4, -1, 1>>,        man |-> 11, exp |-> -2],
     [min_poly |-> <<1, -2, -1, 1>>,     man |-> 14, exp |-> -3],
     [min_poly |-> <<-9, -1, 1>>,        man |-> 28, exp |-> -3] >>

\* max_dps values a run may be given
DpsChoices == {2, 15}

(***************************************************************************)
(* Integer helpers.                                                        *)
(***************************************************************************)
Abs(x) == IF x < 0 THEN -x ELSE x

Max2(a, b) == IF a >= b THEN a ELSE b

Min2(a, b) == IF a <= b THEN a ELSE b

\* _base2_magn for x >= 0: the number of right shifts that bring x to 0
RECURSIVE _base2_magn(_)
_base2_magn(x) == IF x <= 0 THEN 0 ELSE 1 + _base2_magn(x \div 2)

\* Rounding of a mantissa to prec significant bits (round half to even), the
\* scale unchanged: what mpmath does with the result of every operation.
RoundPrec(m, prec) ==
  LET a == Abs(m)
      L == _base2_magn(a)
  IN IF L <= prec THEN m
     ELSE LET s == 2 ^ (L - prec)
              q == a \div s
              r == a % s
              up == (2 * r > s) \/ (2 * r = s /\ q % 2 = 1)
              v == (IF up THEN q + 1 ELSE q) * s
          IN IF m < 0 THEN -v ELSE v

\* mpmath clamps a working precision to at least one bit
MpPrec(p) == Max2(1, p)

\* int(max_dps * LOG_2_10) with LOG_2_10 = 3.32193
MaxPrec(max_dps) == (max_dps * 332193) \div 100000

(***************************************************************************)
(* Polynomials.                                                            *)
(***************************************************************************)
Deg(mp) == Len(mp) - 1

ZeroPoly(d) == [i \in 1..d |-> 0]

\* degree of a coefficient tuple, -1 for the zero polynomial (calc_deg)
calc_deg(B) ==
  IF \A i \in 1..Len(B) : B[i] = 0 THEN -1
  ELSE CHOOSE j \in 0..(Len(B) - 1) :
         B[j + 1] # 0 /\ \A i \in (j + 2)..Len(B) : B[i] = 0

RECURSIVE MaxAbsFrom(_, _)
MaxAbsFrom(B, i) ==
  IF i > Len(B) THEN 0 ELSE Max2(Abs(B[i]), MaxAbsFrom(B, i + 1))

max_abs_coef(B) == MaxAbsFrom(B, 1)

\* B0 = IntPolynomial(0).set([1])
B0(d) == [i \in 1..d |-> IF i = 1 THEN 1 ELSE 0]


\* B1 = IntPolynomial(1).set([-int(beta0), 1]); only read when beta0 < 2^31
BetaInt(beta) ==
  IF beta.exp >= 0 THEN beta.man * 2 ^ beta.exp
  ELSE beta.man \div 2 ^ (-beta.exp)

B1(beta) ==
  [i \in 1..Deg(beta.min_poly) |->
     IF i = 1 THEN -BetaInt(beta) ELSE IF i = 2 THEN 1 ELSE 0]

\* int(mpmath.ceil(beta0)), for beta0 below 2^31
BetaCeil(beta) ==
  IF beta.exp >= 0 THEN beta.man * 2 ^ beta.exp
  ELSE -((-beta.man) \div 2 ^ (-beta.exp))

\* _base2_magn(beta0_ceil + 1), computed from the mantissa when beta0 is a
\* large power of two times man (the value itself leaves the checker's range)
Base2MagnBetaCeilPlus1(beta) ==
  IF beta.exp > 0 THEN _base2_magn(beta.man) + beta.exp
  ELSE _base2_magn(BetaCeil(beta) + 1)

(***************************************************************************)
(* _calc_Bn: B_n = x * B_{n-1} - c_n, reduced by the minimal polynomial    *)
(* when the coefficient of B_{n-1} at deg - 1 is not zero.                 *)
(***************************************************************************)
\* a variant that leaves the reduction out
_calc_Bn_unreduced(Bn_1, cn, min_poly) ==
  [i \in 1..Deg(min_poly) |->
     IF i = 1 THEN -cn
     ELSE IF i - 1 <= Min2(Deg(min_poly) - 1, calc_deg(Bn_1) + 1)
       THEN Bn_1[i - 1] ELSE 0]

_calc_Bn(Bn_1, cn, min_poly) ==
  LET d == Deg(min_poly)
      Bn_1_deg == calc_deg(Bn_1)
      lead == Bn_1[d]
      top == Min2(d - 1, Bn_1_deg + 1)
      shifted == [i \in 1..d |->
                    IF i = 1 THEN -cn
                    ELSE IF i - 1 <= top THEN Bn_1[i - 1] ELSE 0]
  IN IF lead # 0
       THEN [i \in 1..d |-> shifted[i] - lead * min_poly[i]]
       ELSE shifted

(***************************************************************************)
(* mpf arithmetic.                                                         *)
(***************************************************************************)
\* x * p rounded to the working precision
MpfMul(x, p, prec) ==
  [man |-> RoundPrec(x.man * p.man, MpPrec(prec)), exp |-> x.exp + p.exp]

\* p + c for an integer c, rounded to the working precision (p.exp <= 0)
MpfAddInt(p, c, prec) ==
  [man |-> RoundPrec(p.man + c * 2 ^ (-p.exp), MpPrec(prec)), exp |-> p.exp]

\* Horner's rule from the coefficient of x^i downwards: p = x * p + coef
RECURSIVE Horner(_, _, _, _, _)
Horner(B, beta, i, p, prec) ==
  IF i < 0 THEN p
  ELSE Horner(B, beta, i - 1,
              MpfAddInt(MpfMul([man |-> beta.man, exp |-> beta.exp], p, prec),
                        B[i + 1], prec),
              prec)

\* Bn_1.c_eval(beta0, FALSE): last_eval at the working precision prec
c_eval(B, beta, prec) ==
  LET deg == calc_deg(B)
  IN IF deg < 0 THEN [man |-> 0, exp |-> 0]
     ELSE Horner(B, beta, deg - 1,
                 [man |-> RoundPrec(B[deg + 1], MpPrec(prec)), exp |-> 0], prec)

\* xi = beta0 * Bn_1.last_eval at the working precision prec
Xi(B, beta, prec) ==
  MpfMul([man |-> beta.man, exp |-> beta.exp], c_eval(B, beta, prec), prec)

\* int(x): truncation toward zero (x.exp <= 0)
MpfInt(x) ==
  IF x.man >= 0 THEN x.man \div 2 ^ (-x.exp)
  ELSE -((-x.man) \div 2 ^ (-x.exp))

MpfFloor(x) == x.man \div 2 ^ (-x.exp)

MpfCeil(x) == -((-x.man) \div 2 ^ (-x.exp))

\* mantissa of mpmath.frac(x) over the scale 2^(-x.exp)
FracMan(x) == x.man % 2 ^ (-x.exp)

\* _mpf_base2_magn(x) = _base2_magn(int(x) + 1).  "hang" stands for the
\* shift loop of _base2_magn on a negative argument, which never reaches 0.
_mpf_base2_magn(x) ==
  IF x.exp > 0
    THEN IF x.man > 0 THEN _base2_magn(x.man) + x.exp
         ELSE IF x.man = 0 THEN 1 ELSE -1
    ELSE IF MpfInt(x) + 1 < 0 THEN -1 ELSE _base2_magn(MpfInt(x) + 1)

\* v <= 2^(4 - prec) for a mantissa v >= 0 over the scale 2^(-e)
LeEps(v, e, prec) ==
  IF 4 - prec - e >= 0 THEN v <= 2 ^ (4 - prec - e) ELSE v = 0

\* _incr_prec(x) evaluated under setprec(y_prec): x < 0, or frac(x) almosteq 0
\* or 1 with mpmath's default tolerance 2^(4 - prec)
_incr_prec(x, y_prec) ==
  LET p == MpPrec(y_prec)
  IN \/ x.man < 0
     \/ x.exp >= 0
     \/ LET fr == RoundPrec(FracMan(x), p)
            one == 2 ^ (-x.exp)
        IN \/ LeEps(fr, x.exp, p)
           \/ LeEps(RoundPrec(Abs(one - fr), p), x.exp, p)

\* _round(x) at the working precision prec
_round(x, prec) ==
  LET frac1 == FracMan(x)
      frac2 == RoundPrec(2 ^ (-x.exp) - frac1, MpPrec(prec))
  IN IF frac1 <= frac2 THEN MpfFloor(x) ELSE MpfCeil(x)

\* _calc_cn(xi) = int(xi)
_calc_cn(xi) == MpfInt(xi)

\* a test that lets every digit through
CnExceedsBeta_never(cn, beta) == FALSE

\* cn > beta0
CnExceedsBeta(cn, beta) ==
  IF beta.exp <= 0 THEN cn * 2 ^ (-beta.exp) > beta.man ELSE FALSE

\* a correction that forgets what B_{n-1} had contributed
_prec_offset_whole(Bn, Bn_1) ==
  _base2_magn(max_abs_coef(Bn))

\* _prec_offset(Bn, Bn_1)
_prec_offset(Bn, Bn_1) ==
  _base2_magn(max_abs_coef(Bn)) - _base2_magn(max_abs_coef(Bn_1))

\* x_y_prec_offset as computed at start-up from Bn_1
InitialOffset(Bn_1, beta) ==
  1 + 2 * _base2_magn(Deg(beta.min_poly)) + _base2_magn(max_abs_coef(Bn_1))
    + Deg(beta.min_poly) * Base2MagnBetaCeilPlus1(beta)

\* x_prec_lower_bound (math.ceil of an integer is the integer)
LowerBound(deg) ==
  LET raw == IF deg = 2 THEN 1
             ELSE 2 + 2 * _base2_magn(deg - 1) - _base2_magn(deg)
  IN IF raw <= 0 THEN 1 ELSE raw

\* _calc_min_blowup
_calc_min_blowup(is_mono, n_, deg, blowup, Bn_1, Bn) ==
  IF ~is_mono THEN -1
  ELSE IF n_ < deg THEN 0
  ELSE IF \E j \in 1..deg : Bn_1[j] # 0 \/ Bn[j] = 0 THEN -1
  ELSE blowup

\* mpmath's conversions between decimal places and bits
DpsToPrec(dps) == Max2(1, (2 * (dps + 1) * 332193 + 100000) \div 200000)

PrecToDps(prec) == Max2(1, (200000 * prec + 332193) \div 664386 - 1)

(***************************************************************************)
(* Registers.  A block is [startn, seg]; the blocks of a register are kept *)
(* in the order of their start indices.                                    *)
(***************************************************************************)
Blk(startn_, seg) == [startn |-> startn_, seg |-> seg]

RECURSIVE SumLenFrom(_, _)
SumLenFrom(reg, i) ==
  IF i > Len(reg) THEN 0 ELSE Len(reg[i].seg) + SumLenFrom(reg, i + 1)

\* reg.len(orbit_apri)
RegLen(reg) == SumLenFrom(reg, 1)

\* orbit_apri in reg
HasApri(reg) == Len(reg) > 0

\* reg.append_disk_blk(blk)
append_disk_blk(reg, blk) == Append(reg, blk)

\* "if len(blk) > 0: reg.append_disk_blk(blk)"
FlushIfAny(reg, startn_, seg) ==
  IF Len(seg) > 0 THEN append_disk_blk(reg, Blk(startn_, seg)) ELSE reg

HasIndex(blks, idx) ==
  \E i \in 1..Len(blks) :
     blks[i].startn <= idx /\ idx < blks[i].startn + Len(blks[i].seg)

\* reg[orbit_apri, idx] over the given blocks (disk blocks, then RAM blocks)
GetIndex(blks, idx) ==
  LET i == CHOOSE i \in 1..Len(blks) :
             blks[i].startn <= idx /\ idx < blks[i].startn + Len(blks[i].seg)
  IN blks[i].seg[idx - blks[i].startn + 1]

RECURSIVE FlatFrom(_, _)
FlatFrom(reg, i) ==
  IF i > Len(reg) THEN <<>> ELSE reg[i].seg \o FlatFrom(reg, i + 1)

\* the stored sequence, block after block
Flat(reg) == FlatFrom(reg, 1)

(***************************************************************************)
(* _calc_minimal_period(k, Bk, poly_orbit_reg, orbit_apri) over the blocks *)
(* blks; <<-1, -1>> stands for the RuntimeError of the for-else.           *)
(***************************************************************************)
PeriodCandidate_as_is(period_len, k_) == period_len

\* lines 930-933: the last value of the loop stands for k itself
PeriodCandidate(period_len, k_) ==
  IF period_len = 1 + k_ \div 2 THEN k_ ELSE period_len

\* a variant that takes the half index itself for the period
_calc_minimal_period_half_index(k_, Bk_, blks) ==
  LET eq == { i \in 1..k_ : GetIndex(blks, i) = GetIndex(blks, i + k_) }
      first == IF eq = {} THEN k_ ELSE CHOOSE i \in eq : \A j \in eq : i <= j
  IN <<first - 1, k_>>

_calc_minimal_period(k_, Bk_, blks) ==
  LET tried == { q \in 1..(1 + k_ \div 2) :
                   /\ (k_ % q = 0 \/ q = 1 + k_ \div 2)
                   /\ HasIndex(blks, k_ + PeriodCandidate(q, k_))
                   /\ Bk_ = GetIndex(blks, k_ + PeriodCandidate(q, k_)) }
  IN IF tried = {} THEN <<-1, -1>>
     ELSE LET q == CHOOSE q \in tried : \A r \in tried : q <= r
              p_ == PeriodCandidate(q, k_)
              eq == { i \in 1..k_ : GetIndex(blks, i) = GetIndex(blks, i + p_) }
              first == IF eq = {} THEN k_
                       ELSE CHOOSE i \in eq : \A j \in eq : i <= j
          IN <<first - 1, p_>>

(***************************************************************************)
(* _cleanup_register on one register: blocks beyond the principal orbit    *)
(* are removed, the block straddling its end is replaced by its prefix.    *)
(***************************************************************************)
RECURSIVE CleanupFrom(_, _, _)
CleanupFrom(reg, principal_len, i) ==
  IF i > Len(reg) THEN <<>>
  ELSE LET b == reg[i]
           rest == CleanupFrom(reg, principal_len, i + 1)
       IN IF principal_len < b.startn THEN rest
          ELSE IF principal_len < b.startn + Len(b.seg) - 1
            THEN <<Blk(b.startn, SubSeq(b.seg, 1, principal_len - b.startn + 1))>>
                   \o rest
          ELSE <<b>> \o rest

CleanupReg(reg, principal_len) == CleanupFrom(reg, principal_len, 1)

(***************************************************************************)
(* _fix_problems: the assertions, and the repair.                          *)
(***************************************************************************)
\* assertions that do not compare the presence in the two stores
Consistent_poly_only(poly, coef, status, periodic) ==
  HasApri(poly) =>
    IF periodic[1] # -1
      THEN /\ RegLen(poly) = periodic[1] + periodic[2]
           /\ RegLen(coef) = periodic[1] + periodic[2] + 1
           /\ status = <<-1, -1, -1>>
      ELSE RegLen(poly) = RegLen(coef) /\ RegLen(coef) = status[1]

Consistent(poly, coef, status, periodic) ==
  LET preperiod_ == periodic[1]
      period_ == periodic[2]
      is_periodic == preperiod_ # -1
      principal_len == preperiod_ + period_
  IN /\ HasApri(poly) = HasApri(coef)
     /\ HasApri(poly) =>
          /\ is_periodic = (period_ # -1)
          /\ IF is_periodic
               THEN /\ RegLen(poly) = principal_len
                    /\ RegLen(coef) = principal_len + 1
                    /\ status = <<-1, -1, -1>>
               ELSE /\ RegLen(poly) = RegLen(coef)
                    /\ RegLen(coef) = status[1]

\* _fix_problems returns True exactly when an assertion fails
_fix_problems(poly, coef, status, periodic) ==
  ~Consistent(poly, coef, status, periodic)

\* line 168: the orbits a run works on
IncompleteOrbit(orbit_length, max_len) ==
  0 <= orbit_length /\ orbit_length < max_len

\* lines 151-154: the aggregate test on min_len
CompleteToMaxOrbitLen(ml, max_len) ==
  IF ml # -1 THEN ml >= max_len ELSE TRUE

\* _update_status_reg_apos for the one orbit of the register
UpdatedMinLen(status) == IF status[1] >= 0 THEN status[1] ELSE -1

\* an early return that looks at the periodic record only
QuitEarly_periodic_only(status, periodic) == periodic[1] # -1

\* lines 563-573: nothing to do for an overflowed or a periodic orbit
QuitEarly(status, periodic) == status[3] # -1 \/ periodic[1] # -1

\* a flush one entry late
FlushDue_strict(blk_len, max_len) == blk_len > max_len

\* line 895
FlushDue(blk_len, max_len) == blk_len >= max_len

CheckpointStatus(n_) == <<n_, -1, -1>>

\* a precision status that counts the failed step as computed
PrecisionStatus_at_n(n_) == <<n_, n_, -1>>

PrecisionStatus(n_) == <<n_ - 1, n_, -1>>

OverflowStatus(n_) == <<n_ - 1, -1, n_>>

\* a status that takes the loop index after the last step for the length
ExhaustedStatus_next(max_len) == <<max_len + 1, -1, -1>>

\* line 914
ExhaustedStatus(max_len) == <<max_len, -1, -1>>

PeriodicStatus == <<-1, -1, -1>>

\* a tail that loses the terminating 0 when the block was full
SimpleParryTail_cleared(seg1, full) == IF full THEN <<>> ELSE Append(seg1, 0)

\* lines 796-802: the digit buffer after the last digit of a simple Parry
\* number (cleared if that digit filled the block) takes the terminating 0
SimpleParryTail(seg1, full) == IF full THEN <<0>> ELSE Append(seg1, 0)

\* period 1 from index n - 1 on
B1Period_one(n_) == <<n_ - 2, 1>>

\* line 851: the arguments of _set_periodic_info when B_n = B_1
B1Period(n_) == <<0, n_ - 1>>

B0Period_short(n_) == <<0, n_ - 1>>

\* line 863: the arguments of _set_periodic_info when B_n = B_0
B0Period(n_) == <<0, n_>>

\* _set_monotone_data
MonotoneData(is_mono, blowup) == IF is_mono THEN <<1, blowup>> ELSE <<0, -1>>

(***************************************************************************)
(* The while loop of lines 715-750 up to its exit: evaluate, and double    *)
(* the precision while the value is ambiguous and precision is left.       *)
(* out is "hang" (_base2_magn never returns), "overflow", "ok" (the loop   *)
(* ends with a digit) or "fallback" (lines 752-816); evals holds every     *)
(* current_x_prec at which xi was evaluated.                               *)
(***************************************************************************)
\* an escalation that does not stop at max_prec
Escalated_unclamped(x_prec, y_prec, offset, max_prec) ==
  [x_prec |-> y_prec * PREC_INCREASE_FACTOR + offset,
   y_prec |-> y_prec * PREC_INCREASE_FACTOR]

\* lines 742-748
Escalated(x_prec, y_prec, offset, max_prec) ==
  LET y2 == y_prec * PREC_INCREASE_FACTOR
      x2 == y2 + offset
  IN IF max_prec <= x2 THEN [x_prec |-> max_prec, y_prec |-> max_prec - offset]
     ELSE [x_prec |-> x2, y_prec |-> y2]

RECURSIVE Settle(_, _, _, _, _, _)
Settle(B, bt, x_prec, y_prec, offset, max_prec) ==
  LET x == Xi(B, bt, x_prec)
      magn == _mpf_base2_magn(x)
      here == [xi |-> x, x_prec |-> x_prec, y_prec |-> y_prec,
               evals |-> {x_prec}]
  IN IF magn = -1
       THEN [out |-> "hang"] @@ here
     ELSE IF magn >= base2_magn_max_max_abs_coef
       THEN [out |-> "overflow"] @@ here
     ELSE IF ~_incr_prec(x, y_prec)
       THEN [out |-> "ok"] @@ here
     ELSE IF x_prec < max_prec
       THEN LET e == Escalated(x_prec, y_prec, offset, max_prec)
                r == Settle(B, bt, e.x_prec, e.y_prec, offset, max_prec)
            IN [r EXCEPT !.evals = @ \cup {x_prec}]
     ELSE [out |-> "fallback"] @@ here

\* lines 681-690: the precisions a step starts from
StartPrec(offset, lower_bound, max_prec) ==
  LET x == initial_y_prec + offset
  IN IF x < lower_bound THEN [x_prec |-> lower_bound, y_prec |-> initial_y_prec]
     ELSE IF x > max_prec THEN [x_prec |-> max_prec, y_prec |-> max_prec - offset]
     ELSE [x_prec |-> x, y_prec |-> initial_y_prec]

(***************************************************************************)
(* _single_orbit as a function: what one uninterrupted invocation on a     *)
(* fresh orbit leaves in the registers when the test of line 653 falls     *)
(* through.  s holds the registers and the locals at the head of the loop  *)
(* (lines 677-914); the monotone data, which no step reads back into the   *)
(* orbit, are left out.                                                    *)
(***************************************************************************)
\* the return after a failed step: both buffers are flushed, status is set
FailedStep(s, status) ==
  [s EXCEPT !.coef = FlushIfAny(s.coef, s.coef_startn, s.coef_seg),
            !.poly = FlushIfAny(s.poly, s.poly_startn, s.poly_seg),
            !.status = status]

\* the return after _cleanup_register(preperiod, period)
Cleaned(s, coef, poly, preperiod, period) ==
  [s EXCEPT !.coef = CleanupReg(coef, period + preperiod + 1),
            !.poly = CleanupReg(poly, period + preperiod),
            !.status = PeriodicStatus,
            !.periodic = <<preperiod, period>>]

\* lines 794-813
SimpleParryStep(s, cn_, Bn_, blk_len) ==
  LET seg1 == Append(s.coef_seg, cn_)
      full == FlushDue(Len(seg1), blk_len)
      coef1 == IF full THEN append_disk_blk(s.coef, Blk(s.coef_startn, seg1))
               ELSE s.coef
      startn1 == IF full THEN s.coef_startn + Len(seg1) ELSE s.coef_startn
      seg2 == SimpleParryTail(seg1, full)
  IN Cleaned(s, FlushIfAny(coef1, startn1, seg2),
             FlushIfAny(s.poly, s.poly_startn, Append(s.poly_seg, Bn_)),
             s.n - 1, 1)

\* lines 847-866: B_n = B_1 (period n - 1) or B_n = B_0 (period n)
ShortcutStep(s, coef_seg_, period) ==
  [s EXCEPT !.poly = FlushIfAny(s.poly, s.poly_startn, s.poly_seg),
            !.coef = append_disk_blk(s.coef, Blk(s.coef_startn, coef_seg_)),
            !.status = PeriodicStatus,
            !.periodic = <<0, period>>]

\* lines 878-890
HalfIndexStep(s, coef_seg_, poly_seg_, mp) ==
  LET principal_len == mp[1] + mp[2]
  IN Cleaned(s,
             IF principal_len >= s.coef_startn
               THEN append_disk_blk(s.coef, Blk(s.coef_startn, coef_seg_))
               ELSE s.coef,
             IF principal_len + 1 >= s.poly_startn
               THEN append_disk_blk(s.poly, Blk(s.poly_startn, poly_seg_))
               ELSE s.poly,
             mp[1], mp[2])

RECURSIVE LoopFrom(_, _, _, _, _)
LoopFrom(s, bt, blk_len, max_len, dps) ==
  IF s.n > max_len THEN FailedStep(s, ExhaustedStatus(max_len))
  ELSE
    LET d == Deg(bt.min_poly)
        p0 == StartPrec(s.offset, LowerBound(d), MaxPrec(dps))
        r == Settle(s.Bn_1, bt, p0.x_prec, p0.y_prec, s.offset, MaxPrec(dps))
        rounded == _round(r.xi, r.x_prec)
        candidate == _calc_Bn(s.Bn_1, rounded, bt.min_poly)
        cn_ == _calc_cn(r.xi)
        Bn_ == _calc_Bn(s.Bn_1, cn_, bt.min_poly)
        coef_seg_ == Append(s.coef_seg, cn_)
        poly_seg_ == Append(s.poly_seg, Bn_)
        blks == IF Len(poly_seg_) > 0
                  THEN s.poly \o <<Blk(s.poly_startn, poly_seg_)>> ELSE s.poly
        k_ == s.n \div 2
    IN CASE r.out = "hang" -> [s EXCEPT !.hang = TRUE]
         [] r.out = "overflow" -> FailedStep(s, OverflowStatus(s.n))
         [] r.out = "fallback" ->
              IF r.xi.man < 0 THEN FailedStep(s, PrecisionStatus(s.n))
              ELSE IF \E j \in 1..d : candidate[j] # 0
                THEN FailedStep(s, PrecisionStatus(s.n))
              ELSE SimpleParryStep(s, rounded, candidate, blk_len)
         [] OTHER ->
              IF CnExceedsBeta(cn_, bt) THEN FailedStep(s, PrecisionStatus(s.n))
              ELSE IF s.n >= 2 /\ Bn_ = B1(bt)
                THEN ShortcutStep(s, coef_seg_, B1Period(s.n)[2])
              ELSE IF Bn_ = B0(d) THEN ShortcutStep(s, coef_seg_, s.n)
              ELSE IF s.n % 2 = 0 /\ GetIndex(blks, k_) = Bn_
                THEN HalfIndexStep(s, coef_seg_, poly_seg_,
                       _calc_minimal_period(k_, GetIndex(blks, k_), blks))
              ELSE IF FlushDue(Len(coef_seg_), blk_len)
                THEN LoopFrom(
                       [s EXCEPT !.coef = append_disk_blk(s.coef,
                                            Blk(s.coef_startn, coef_seg_)),
                                 !.poly = append_disk_blk(s.poly,
                                            Blk(s.poly_startn, poly_seg_)),
                                 !.coef_startn = @ + Len(coef_seg_),
                                 !.poly_startn = @ + Len(poly_seg_),
                                 !.coef_seg = <<>>, !.poly_seg = <<>>,
                                 !.status = CheckpointStatus(s.n),
                                 !.Bn_1 = Bn_,
                                 !.offset = @ + _prec_offset(Bn_, s.Bn_1),
                                 !.n = @ + 1],
                       bt, blk_len, max_len, dps)
              ELSE LoopFrom(
                     [s EXCEPT !.coef_seg = coef_seg_, !.poly_seg = poly_seg_,
                               !.Bn_1 = Bn_,
                               !.offset = @ + _prec_offset(Bn_, s.Bn_1),
                               !.n = @ + 1],
                     bt, blk_len, max_len, dps)

\* one invocation on the registers that calc_orbits_setup leaves
OnePass(bt, blk_len, dps, max_len) ==
  LET fresh == [poly |-> <<>>, coef |-> <<>>, status |-> <<0, -1, -1>>,
                periodic |-> <<-1, -1>>, coef_seg |-> <<>>, poly_seg |-> <<>>,
                coef_startn |-> 1, poly_startn |-> 1,
                Bn_1 |-> B0(Deg(bt.min_poly)),
                offset |-> InitialOffset(B0(Deg(bt.min_poly)), bt),
                n |-> 1, hang |-> FALSE]
  IN IF LowerBound(Deg(bt.min_poly)) > MaxPrec(dps) THEN fresh
     ELSE LoopFrom(fresh, bt, blk_len, max_len, dps)

(***************************************************************************)
(* State.                                                                  *)
(***************************************************************************)
VARIABLES
  \* the registers, for the one orbit the model follows
  poly_orbit_reg, coef_orbit_reg, status_reg, periodic_reg, monotone_reg,
  min_len,
  \* mpmath.mp.prec
  mp_prec,
  \* calc_orbits: runs started so far and the arguments of the current run
  runs, max_blk_len, max_orbit_len, max_dps, proc_index, beta,
  \* control: where the run is, and whether an exception is propagating
  pc, raised,
  \* locals of _single_orbit
  n, startn, coef_seg, poly_seg, coef_blk_startn, poly_blk_startn,
  Bn_1, Bn, Bk, Bk_next, cn, xi, is_monotone, min_blowup,
  x_y_prec_offset, current_x_prec, current_y_prec,
  preperiod_len, period_len, original_dps,
  \* poly_blk is a RAM block of poly_orbit_reg (add_ram_blk, line 595)
  ram_blk,
  \* history: _fix_problems has wiped the orbit and _single_orbit has not been
  \* entered since
  repaired,
  \* history: <<>> before the first run, then <<max_blk_len, max_dps>> of the
  \* runs so far for as long as they all had the same ones and each was left
  \* only at a checkpoint or by a return; Broken afterwards
  trail

(***************************************************************************)
(* State of a group of orbits worked on by the processes that each called  *)
(* calc_orbits with the same num_procs and its own proc_index.             *)
(***************************************************************************)
VARIABLES
  num_procs,
  \* status_reg of the group: its blocks of status triples
  status_blks,
  \* per orbit index, the persisted polynomial orbit, digit orbit and
  \* periodic record
  orbit_recs,
  \* per orbit index, what _single_orbit does with the fresh orbit under the
  \* arguments of the run, worked out once
  outcomes,
  \* status_reg.apos(poly_apri).min_len
  apos_min_len,
  \* apos_updates of the pass of proc_index 0, between its scan and its write
  apos_update,
  \* per proc_index: position, min_len as read at line 151, blk_index of the
  \* enumeration of line 156, the rest of incomplete_indices
  wpc, wmin, wblk, wtodo,
  \* history: <<proc_index, blk_index>> of the blocks entered at line 160,
  \* <<proc_index, index>> of the orbits handed to _single_orbit, the
  \* proc_index values that called set_apos, and those that read min_len
  \* before the pass of proc_index 0 had finished
  owners, writers, apos_writers, early_readers

(***************************************************************************)
(* State of calc_orbits_resetup: the registers group by group.             *)
(***************************************************************************)
VARIABLES
  \* per apri, perron_polys_reg.intervals(apri) as a set of <<startn, length>>
  perron_polys_reg,
  \* per apri, the blocks of status_reg: interval |-> segment
  status_reg_blks,
  \* per apri, status_reg.apos(apri).min_len, NoApos where there is none
  status_reg_apos,
  \* the apris the loop of line 411 has still to visit, and its local
  \* missing_ints
  apris_left, missing_ints

resetup ==
  <<perron_polys_reg, status_reg_blks, status_reg_apos, apris_left,
    missing_ints>>

(***************************************************************************)
(* The Int_Polynomial objects a and b of the utilities (part_005).         *)
(***************************************************************************)
VARIABLES
  \* per object, its fields _coefs, _deg, _max_deg, _is_natural, _start_index
  polys

group ==
  <<outcomes, status_blks, orbit_recs, apos_min_len, apos_update, wpc, wmin,
    wblk, wtodo, owners, writers, apos_writers, early_readers, resetup,
    polys>>

batch == <<num_procs, group>>

registers ==
  <<poly_orbit_reg, coef_orbit_reg, status_reg, periodic_reg, monotone_reg>>

\* the arguments of the run of the one orbit; the group of the workers is left
\* alone wherever they are
args == <<max_blk_len, max_orbit_len, max_dps, proc_index, beta, batch>>

bufs == <<coef_seg, poly_seg, coef_blk_startn, poly_blk_startn>>

iter == <<Bn_1, Bn, Bk, Bk_next, cn, xi, is_monotone, min_blowup,
          x_y_prec_offset, current_x_prec, current_y_prec>>

found == <<preperiod_len, period_len>>

locals == <<n, startn, bufs, iter, found, original_dps, ram_blk>>

history == <<repaired, trail>>

vars ==
  <<registers, min_len, mp_prec, runs, args, pc, raised, locals, history>>

Broken == <<0, 0>>

NoMpf == [man |-> 0, exp |-> 0]

\* calc_orbits_resetup is not being followed
ResetupUnset ==
  /\ perron_polys_reg = <<>> /\ status_reg_blks = <<>>
  /\ status_reg_apos = <<>> /\ apris_left = <<>> /\ missing_ints = {}

\* no process is working on the group
WorkersUnset ==
  /\ num_procs = 1
  /\ status_blks = <<>> /\ orbit_recs = <<>> /\ outcomes = <<>>
  /\ apos_min_len = -1 /\ apos_update = -1
  /\ wpc = <<>> /\ wmin = <<>> /\ wblk = <<>> /\ wtodo = <<>>
  /\ owners = {} /\ writers = {} /\ apos_writers = {} /\ early_readers = {}

\* no Int_Polynomial is being followed
PolysUnset == polys = <<>>

\* no group is being worked on
BatchUnset == WorkersUnset /\ ResetupUnset /\ PolysUnset

\* the locals before _single_orbit has assigned them
LocalsUnset ==
  /\ n = 0 /\ startn = 0
  /\ coef_seg = <<>> /\ poly_seg = <<>>
  /\ coef_blk_startn = 0 /\ poly_blk_startn = 0
  /\ Bn_1 = <<>> /\ Bn = <<>> /\ Bk = <<>> /\ Bk_next = 0
  /\ cn = 0 /\ xi = NoMpf /\ is_monotone = TRUE /\ min_blowup = 0
  /\ x_y_prec_offset = 0 /\ current_x_prec = 0 /\ current_y_prec = 0
  /\ preperiod_len = -1 /\ period_len = -1 /\ original_dps = 0
  /\ ram_blk = FALSE

\* mpmath's default precision, in force outside of calc_orbits
DefaultPrec == DpsToPrec(15)

\* The registers as calc_orbits_setup leaves them.
Init ==
  /\ poly_orbit_reg = <<>> /\ coef_orbit_reg = <<>>
  /\ status_reg = <<0, -1, -1>>
  /\ periodic_reg = <<-1, -1>>
  /\ monotone_reg = <<1, 0>>
  /\ min_len = 0
  /\ mp_prec = DefaultPrec
  /\ runs = 0
  /\ max_blk_len = 0 /\ max_orbit_len = 0 /\ max_dps = 0
  /\ proc_index = 0
  /\ beta \in {Betas[i] : i \in 1..Len(Betas)}
  /\ pc = "idle" /\ raised = FALSE
  /\ LocalsUnset
  /\ BatchUnset
  /\ repaired = FALSE
  /\ trail = <<>>

deg == Deg(beta.min_poly)

max_prec == MaxPrec(max_dps)

\* the blocks poly_orbit_reg reads from: its disk blocks and the RAM block
PolyBlks(seg) ==
  IF Len(seg) > 0 THEN poly_orbit_reg \o <<Blk(poly_blk_startn, seg)>>
  ELSE poly_orbit_reg

(***************************************************************************)
(* calc_orbits.                                                            *)
(***************************************************************************)
ValidArgs_but_dps(max_blk_len_, max_orbit_len_, max_dps_, num_procs_, proc_index_) ==
  /\ ~(max_blk_len_ <= 0)
  /\ ~(max_orbit_len_ <= 0)
  /\ ~(num_procs_ <= 0)
  /\ ~(proc_index_ < 0)

\* lines 124-137: none of the five tests raises ValueError
ValidArgs(max_blk_len_, max_orbit_len_, max_dps_, num_procs_, proc_index_) ==
  /\ ~(max_blk_len_ <= 0)
  /\ ~(max_orbit_len_ <= 0)
  /\ ~(max_dps_ <= 0)
  /\ ~(num_procs_ <= 0)
  /\ ~(proc_index_ < 0)

\* lines 118-140: the arguments are validated, min_len is brought up to date
StartRun ==
  /\ pc = "idle"
  /\ runs < MaxRuns
  \* called with lengths and decimal places from zero up, as the one process
  \* of the run or with none, under its proc_index or the one below
  /\ \E blk \in 0..MaxBlkLen, len \in 0..MaxOrbitLen, dps \in {0} \cup DpsChoices,
        procs \in 0..1, index \in -1..0 :
       /\ ValidArgs(blk, len, dps, procs, index)
       /\ max_blk_len' = blk
       /\ max_orbit_len' = len
       /\ max_dps' = dps
       /\ num_procs' = procs
       /\ proc_index' = index
       /\ trail' = IF trail = <<>> \/ trail = <<blk, dps>> THEN <<blk, dps>>
                   ELSE Broken
  /\ runs' = runs + 1
  /\ min_len' = UpdatedMinLen(status_reg)
  /\ pc' = "select"
  /\ UNCHANGED <<registers, mp_prec, beta, group, raised, locals, repaired>>

\* lines 124-137: one of the five tests raises ValueError, before line 139
\* and before any register is opened (lines 143-146)
RejectArgs ==
  /\ pc = "idle"
  \* the tests tell zero from positive only: one positive length is enough
  /\ \E blk \in 0..1, len \in 0..1, dps \in {0} \cup DpsChoices,
        procs \in 0..1, index \in -1..0 :
       /\ ~ValidArgs(blk, len, dps, procs, index)
       /\ max_blk_len' = blk
       /\ max_orbit_len' = len
       /\ max_dps' = dps
       /\ num_procs' = procs
       /\ proc_index' = index
  /\ raised' = TRUE
  /\ pc' = "end"
  /\ UNCHANGED <<registers, min_len, mp_prec, runs, beta, group, locals, history>>

\* lines 150-170: is the orbit among the incomplete ones of this run
SelectOrbit ==
  /\ pc = "select"
  /\ IF /\ ~CompleteToMaxOrbitLen(min_len, max_orbit_len)
        /\ IncompleteOrbit(status_reg[1], max_orbit_len)
       THEN /\ pc' = "fix"
            /\ mp_prec' = DpsToPrec(max_dps)
       ELSE /\ pc' = "end"
            /\ UNCHANGED mp_prec
  /\ UNCHANGED <<registers, min_len, runs, args, history, raised, locals>>

\* _fix_problems as called at lines 180-183 (repair = TRUE, then on to
\* _single_orbit) and in the handler of lines 209-219 (then the exception
\* leaves calc_orbits)
\* a repair that also forgets the periodic record
FixProblems_reset(next_pc) ==
  /\ IF _fix_problems(poly_orbit_reg, coef_orbit_reg, status_reg, periodic_reg)
       THEN /\ poly_orbit_reg' = <<>>
            /\ coef_orbit_reg' = <<>>
            /\ status_reg' = <<0, -1, -1>>
            /\ periodic_reg' = <<-1, -1>>
            /\ repaired' = TRUE
       ELSE UNCHANGED <<poly_orbit_reg, coef_orbit_reg, status_reg,
                        periodic_reg, repaired>>
  /\ pc' = next_pc
  /\ UNCHANGED <<monotone_reg, min_len, mp_prec, runs, args, raised, locals,
                 trail>>

FixProblems(next_pc) ==
  /\ IF _fix_problems(poly_orbit_reg, coef_orbit_reg, status_reg, periodic_reg)
       THEN /\ poly_orbit_reg' = <<>>
            /\ coef_orbit_reg' = <<>>
            /\ status_reg' = <<0, -1, -1>>
            /\ repaired' = TRUE
       ELSE UNCHANGED <<poly_orbit_reg, coef_orbit_reg, status_reg, repaired>>
  /\ pc' = next_pc
  /\ UNCHANGED <<periodic_reg, monotone_reg, min_len, mp_prec, runs, args,
                 raised, locals, trail>>

PreFix == pc = "fix" /\ FixProblems("so_start")

Handler == pc = "handler" /\ FixProblems("end")

\* lines 221-238: compression keeps the contents of the blocks
Compress ==
  /\ pc = "compress"
  /\ pc' = "end"
  /\ UNCHANGED <<registers, min_len, mp_prec, runs, args, history, raised, locals>>

\* calc_orbits is left (normally or by the exception); setdps restores the
\* precision
EndRun ==
  /\ pc = "end"
  /\ pc' = "idle"
  /\ raised' = FALSE
  /\ mp_prec' = DefaultPrec
  /\ max_blk_len' = 0 /\ max_orbit_len' = 0 /\ max_dps' = 0
  /\ num_procs' = 1 /\ proc_index' = 0
  /\ n' = 0 /\ startn' = 0
  /\ coef_seg' = <<>> /\ poly_seg' = <<>>
  /\ coef_blk_startn' = 0 /\ poly_blk_startn' = 0
  /\ Bn_1' = <<>> /\ Bn' = <<>> /\ Bk' = <<>> /\ Bk_next' = 0
  /\ cn' = 0 /\ xi' = NoMpf /\ is_monotone' = TRUE /\ min_blowup' = 0
  /\ x_y_prec_offset' = 0 /\ current_x_prec' = 0 /\ current_y_prec' = 0
  /\ preperiod_len' = -1 /\ period_len' = -1 /\ original_dps' = 0
  /\ UNCHANGED ram_blk
  /\ UNCHANGED <<registers, min_len, runs, beta, group, history>>

(***************************************************************************)
(* _single_orbit.                                                          *)
(***************************************************************************)
FirstBk_floor(startn_) ==
  IF startn_ > 1 THEN startn_ \div 2 ELSE 1

\* lines 607-608 and 617: the index Bk_iter starts from
FirstBk(startn_) ==
  IF startn_ > 1 THEN (startn_ + 1) \div 2 ELSE 1

\* lines 558-651: start-up.  An orbit that overflowed or is periodic is left
\* alone; otherwise the buffers, B_{startn-1}, the half-index cursor and the
\* precision offset are set up.
SoStart ==
  /\ pc = "so_start"
  /\ IF QuitEarly(status_reg, periodic_reg)
       THEN /\ pc' = "compress"
            /\ UNCHANGED <<raised, locals, trail>>
       ELSE LET startn_ == status_reg[1] + 1
                found_ == startn_ = 1 \/ HasIndex(poly_orbit_reg, startn_ - 1)
                Bn_1_ == IF startn_ > 1 THEN GetIndex(poly_orbit_reg, startn_ - 1)
                         ELSE B0(deg)
            IN /\ startn' = startn_
               /\ coef_seg' = <<>> /\ poly_seg' = <<>>
               /\ coef_blk_startn' = startn_ /\ poly_blk_startn' = startn_
               /\ original_dps' = PrecToDps(mp_prec)
               /\ ram_blk' = TRUE
               /\ is_monotone' = (monotone_reg[1] = 1)
               /\ min_blowup' = monotone_reg[2]
               /\ IF ~found_
                    THEN \* DataNotFoundError
                         /\ raised' = TRUE /\ pc' = "finally"
                         /\ trail' = Broken
                         /\ UNCHANGED <<Bn_1, Bk_next, x_y_prec_offset>>
                    ELSE /\ Bn_1' = Bn_1_
                         /\ Bk_next' = FirstBk(startn_)
                         /\ x_y_prec_offset' = InitialOffset(Bn_1_, beta)
                         /\ IF LowerBound(deg) > max_prec
                              THEN \* ValueError
                                   /\ raised' = TRUE /\ pc' = "finally"
                                   /\ trail' = Broken
                              ELSE /\ raised' = FALSE /\ pc' = "prec0"
                                   /\ UNCHANGED trail
               /\ UNCHANGED <<n, Bn, Bk, cn, xi, current_x_prec, current_y_prec,
                              found>>
  /\ repaired' = FALSE
  /\ UNCHANGED <<registers, min_len, mp_prec, runs, args>>

\* lines 653-657: current_x_prec is compared before it is first assigned, so
\* either branch may be taken
InitialPrecCheck ==
  /\ pc = "prec0"
  /\ \E too_large \in BOOLEAN :
       IF too_large
         THEN /\ status_reg' = PrecisionStatus(startn)
              /\ pc' = "finally"
              /\ trail' = Broken
              /\ UNCHANGED n
         ELSE /\ n' = startn
              /\ pc' = "loop"
              /\ UNCHANGED <<status_reg, trail>>
  /\ UNCHANGED <<poly_orbit_reg, coef_orbit_reg, periodic_reg, monotone_reg,
                 min_len, mp_prec, runs, args, repaired, raised, startn, bufs,
                 iter, found, original_dps, ram_blk>>

\* lines 677-766: the head of the loop and the evaluation of xi
LoopHead ==
  /\ pc = "loop"
  /\ IF n > max_orbit_len
       THEN /\ pc' = "ex_coef"
            /\ UNCHANGED <<mp_prec, xi, current_x_prec, current_y_prec>>
       ELSE LET p0 == StartPrec(x_y_prec_offset, LowerBound(deg), max_prec)
                r == Settle(Bn_1, beta, p0.x_prec, p0.y_prec, x_y_prec_offset,
                            max_prec)
            IN /\ xi' = r.xi
               /\ current_x_prec' = r.x_prec
               /\ current_y_prec' = r.y_prec
               /\ mp_prec' = MpPrec(r.x_prec)
               /\ pc' = CASE r.out = "hang" -> "hang"
                          [] r.out = "overflow" -> "ovf_coef"
                          [] r.out = "ok" -> "digit"
                          [] OTHER -> IF r.xi.man < 0 THEN "neg_coef" ELSE "round"
  /\ UNCHANGED <<registers, min_len, runs, args, history, raised, n, startn, bufs,
                 Bn_1, Bn, Bk, Bk_next, cn, is_monotone, min_blowup,
                 x_y_prec_offset, found, original_dps, ram_blk>>

\* "if len(coef_blk) > 0: coef_orbit_reg.append_disk_blk(coef_blk)"
ExitCoef(at, next_pc) ==
  /\ pc = at
  /\ coef_orbit_reg' = FlushIfAny(coef_orbit_reg, coef_blk_startn, coef_seg)
  /\ pc' = next_pc
  /\ UNCHANGED <<poly_orbit_reg, status_reg, periodic_reg, monotone_reg,
                 min_len, mp_prec, runs, args, history, raised, locals>>

\* "if len(poly_blk) > 0: poly_orbit_reg.append_disk_blk(poly_blk)"
ExitPoly(at, next_pc) ==
  /\ pc = at
  /\ poly_orbit_reg' = FlushIfAny(poly_orbit_reg, poly_blk_startn, poly_seg)
  /\ pc' = next_pc
  /\ UNCHANGED <<coef_orbit_reg, status_reg, periodic_reg, monotone_reg,
                 min_len, mp_prec, runs, args, history, raised, locals>>

\* the status write that ends a failed step, followed by "return 0"
ExitStatus(at, status) ==
  /\ pc = at
  /\ status_reg' = status
  /\ pc' = "finally"
  /\ UNCHANGED <<poly_orbit_reg, coef_orbit_reg, periodic_reg, monotone_reg,
                 min_len, mp_prec, runs, args, history, raised, locals>>

\* lines 720-733: overflow
OverflowCoef == ExitCoef("ovf_coef", "ovf_poly")

OverflowPoly == ExitPoly("ovf_poly", "ovf_status")

OverflowSetStatus == ExitStatus("ovf_status", OverflowStatus(n))

\* lines 754-766: xi < 0 at the maximal precision
NegativeCoef == ExitCoef("neg_coef", "neg_poly")

NegativePoly == ExitPoly("neg_poly", "neg_status")

NegativeSetStatus == ExitStatus("neg_status", PrecisionStatus(n))

\* lines 768-790: the rounded digit and the candidate B_n of a simple Parry
\* number; the status write for cn = 0 is not followed by a return
FallbackRound ==
  /\ pc = "round"
  /\ LET cn_ == _round(xi, current_x_prec)
         Bn_ == _calc_Bn(Bn_1, cn_, beta.min_poly)
     IN /\ cn' = cn_
        /\ Bn' = Bn_
        /\ status_reg' = IF cn_ = 0 THEN PrecisionStatus(n) ELSE status_reg
        /\ pc' = IF \E j \in 1..deg : Bn_[j] # 0 THEN "np_coef" ELSE "sp_first"
  /\ UNCHANGED <<poly_orbit_reg, coef_orbit_reg, periodic_reg, monotone_reg,
                 min_len, mp_prec, runs, args, history, raised, n, startn, bufs, Bn_1,
                 Bk, Bk_next, xi, is_monotone, min_blowup, x_y_prec_offset,
                 current_x_prec, current_y_prec, found, original_dps, ram_blk>>

\* lines 780-790: not a simple Parry number
NotParryCoef == ExitCoef("np_coef", "np_poly")

NotParryPoly == ExitPoly("np_poly", "np_status")

NotParrySetStatus == ExitStatus("np_status", PrecisionStatus(n))

\* lines 794-803: the last digit of a simple Parry number, a checkpoint of
\* the digits when the block is full, the terminating 0 and B_n = 0
SimpleParryFirst ==
  /\ pc = "sp_first"
  /\ LET seg1 == Append(coef_seg, cn)
         full == FlushDue(Len(seg1), max_blk_len)
     IN /\ coef_orbit_reg' =
             IF full
               THEN append_disk_blk(coef_orbit_reg, Blk(coef_blk_startn, seg1))
               ELSE coef_orbit_reg
        /\ coef_blk_startn' =
             IF full THEN coef_blk_startn + Len(seg1) ELSE coef_blk_startn
        /\ coef_seg' = SimpleParryTail(seg1, full)
  /\ poly_seg' = Append(poly_seg, Bn)
  /\ pc' = "sp_coef"
  /\ UNCHANGED <<poly_orbit_reg, status_reg, periodic_reg, monotone_reg,
                 min_len, mp_prec, runs, args, history, raised, n, startn,
                 poly_blk_startn, iter, found, original_dps, ram_blk>>

\* lines 805-806
SimpleParryCoef == ExitCoef("sp_coef", "sp_poly")

\* lines 808-813: the last flush and the arguments of _cleanup_register
SimpleParryPoly ==
  /\ pc = "sp_poly"
  /\ poly_orbit_reg' = FlushIfAny(poly_orbit_reg, poly_blk_startn, poly_seg)
  /\ preperiod_len' = n - 1
  /\ period_len' = 1
  /\ pc' = "cl_poly"
  /\ UNCHANGED <<coef_orbit_reg, status_reg, periodic_reg, monotone_reg,
                 min_len, mp_prec, runs, args, history, raised, n, startn, bufs, iter,
                 original_dps, ram_blk>>

\* lines 818-893: the digit of step n, B_n, and what B_n shows
Accept ==
  /\ pc = "digit"
  /\ LET cn_ == _calc_cn(xi)
         Bn_ == _calc_Bn(Bn_1, cn_, beta.min_poly)
         blowup == _calc_min_blowup(is_monotone, n, deg, min_blowup, Bn_1, Bn_)
         n_even == n % 2 = 0
         seg_ == Append(poly_seg, Bn_)
         Bk_ == IF n_even THEN GetIndex(PolyBlks(seg_), Bk_next) ELSE Bk
         mp == _calc_minimal_period(n \div 2, Bk_, PolyBlks(seg_))
     IN /\ cn' = cn_
        /\ IF CnExceedsBeta(cn_, beta)
             THEN /\ pc' = "gt_coef"
                  /\ UNCHANGED <<n, bufs, Bn_1, Bn, Bk, Bk_next, is_monotone,
                                 min_blowup, x_y_prec_offset, found, raised>>
             ELSE /\ Bn' = Bn_
                  /\ min_blowup' = blowup
                  /\ is_monotone' = IF blowup = -1 THEN FALSE ELSE is_monotone
                  /\ coef_seg' = Append(coef_seg, cn_)
                  /\ UNCHANGED <<coef_blk_startn, poly_blk_startn>>
                  /\ IF n >= 2 /\ Bn_ = B1(beta)
                       THEN /\ pc' = "b1_poly"
                            /\ UNCHANGED <<n, poly_seg, Bn_1, Bk, Bk_next,
                                           x_y_prec_offset, found, raised>>
                     ELSE IF Bn_ = B0(deg)
                       THEN /\ pc' = "b0_poly"
                            /\ UNCHANGED <<n, poly_seg, Bn_1, Bk, Bk_next,
                                           x_y_prec_offset, found, raised>>
                     ELSE /\ poly_seg' = seg_
                          /\ x_y_prec_offset' =
                               x_y_prec_offset + _prec_offset(Bn_, Bn_1)
                          /\ Bn_1' = Bn_
                          /\ Bk' = Bk_
                          /\ Bk_next' = IF n_even THEN Bk_next + 1 ELSE Bk_next
                          /\ IF n_even /\ Bk_ = Bn_
                               THEN IF mp = <<-1, -1>>
                                      THEN \* RuntimeError
                                           /\ raised' = TRUE /\ pc' = "finally"
                                           /\ UNCHANGED <<n, found>>
                                      ELSE /\ preperiod_len' = mp[1]
                                           /\ period_len' = mp[2]
                                           /\ pc' = "half_coef"
                                           /\ UNCHANGED <<n, raised>>
                             ELSE IF FlushDue(Len(coef_seg) + 1, max_blk_len)
                               THEN /\ pc' = "ck_coef"
                                    /\ UNCHANGED <<n, found, raised>>
                             ELSE /\ n' = n + 1
                                  /\ pc' = "loop"
                                  /\ UNCHANGED <<found, raised>>
  /\ UNCHANGED <<registers, min_len, mp_prec, runs, args, history, startn, xi,
                 current_x_prec, current_y_prec, original_dps, ram_blk>>

\* lines 820-830: cn > beta0
TooLargeCoef == ExitCoef("gt_coef", "gt_poly")

TooLargePoly == ExitPoly("gt_poly", "gt_status")

TooLargeSetStatus == ExitStatus("gt_status", PrecisionStatus(n))

\* lines 847-851: B_n = B_1
B1Poly == ExitPoly("b1_poly", "b1_coef")

B1Coef ==
  /\ pc = "b1_coef"
  /\ coef_orbit_reg' =
       append_disk_blk(coef_orbit_reg, Blk(coef_blk_startn, coef_seg))
  /\ preperiod_len' = B1Period(n)[1]
  /\ period_len' = B1Period(n)[2]
  /\ pc' = "pi_status"
  /\ UNCHANGED <<poly_orbit_reg, status_reg, periodic_reg, monotone_reg,
                 min_len, mp_prec, runs, args, history, raised, n, startn, bufs, iter,
                 original_dps, ram_blk>>

\* lines 859-863: B_n = B_0
B0Poly == ExitPoly("b0_poly", "b0_coef")

B0Coef ==
  /\ pc = "b0_coef"
  /\ coef_orbit_reg' =
       append_disk_blk(coef_orbit_reg, Blk(coef_blk_startn, coef_seg))
  /\ preperiod_len' = B0Period(n)[1]
  /\ period_len' = B0Period(n)[2]
  /\ pc' = "pi_status"
  /\ UNCHANGED <<poly_orbit_reg, status_reg, periodic_reg, monotone_reg,
                 min_len, mp_prec, runs, args, history, raised, n, startn, bufs, iter,
                 original_dps, ram_blk>>

\* lines 879-886: the half-index detector found B_k = B_2k
HalfCoef ==
  /\ pc = "half_coef"
  /\ coef_orbit_reg' =
       IF preperiod_len + period_len >= coef_blk_startn
         THEN append_disk_blk(coef_orbit_reg, Blk(coef_blk_startn, coef_seg))
         ELSE coef_orbit_reg
  /\ pc' = "half_poly"
  /\ UNCHANGED <<poly_orbit_reg, status_reg, periodic_reg, monotone_reg,
                 min_len, mp_prec, runs, args, history, raised, locals>>

HalfPoly ==
  /\ pc = "half_poly"
  /\ poly_orbit_reg' =
       IF preperiod_len + period_len + 1 >= poly_blk_startn
         THEN append_disk_blk(poly_orbit_reg, Blk(poly_blk_startn, poly_seg))
         ELSE poly_orbit_reg
  /\ pc' = "cl_poly"
  /\ UNCHANGED <<coef_orbit_reg, status_reg, periodic_reg, monotone_reg,
                 min_len, mp_prec, runs, args, history, raised, locals>>

\* _cleanup_register, first pass of its loop: the polynomial register
CleanupPoly ==
  /\ pc = "cl_poly"
  /\ poly_orbit_reg' = CleanupReg(poly_orbit_reg, period_len + preperiod_len)
  /\ pc' = "cl_coef"
  /\ UNCHANGED <<coef_orbit_reg, status_reg, periodic_reg, monotone_reg,
                 min_len, mp_prec, runs, args, history, raised, locals>>

\* _cleanup_register, second pass: the digit register, one entry longer
CleanupCoef ==
  /\ pc = "cl_coef"
  /\ coef_orbit_reg' =
       CleanupReg(coef_orbit_reg, period_len + preperiod_len + 1)
  /\ pc' = "pi_status"
  /\ UNCHANGED <<poly_orbit_reg, status_reg, periodic_reg, monotone_reg,
                 min_len, mp_prec, runs, args, history, raised, locals>>

\* _set_periodic_info: the status first ...
SetPeriodicStatus ==
  /\ pc = "pi_status"
  /\ status_reg' = PeriodicStatus
  /\ pc' = "pi_periodic"
  /\ UNCHANGED <<poly_orbit_reg, coef_orbit_reg, periodic_reg, monotone_reg,
                 min_len, mp_prec, runs, args, history, raised, locals>>

\* ... then the periods
SetPeriodicInfo ==
  /\ pc = "pi_periodic"
  /\ periodic_reg' = <<preperiod_len, period_len>>
  /\ pc' = "pi_monotone"
  /\ UNCHANGED <<poly_orbit_reg, coef_orbit_reg, status_reg, monotone_reg,
                 min_len, mp_prec, runs, args, history, raised, locals>>

\* _set_monotone_data, followed by "return 0" (at next_pc = "finally") or by
\* the status write of a checkpoint
SetMonotone(at, next_pc) ==
  /\ pc = at
  /\ monotone_reg' = MonotoneData(is_monotone, min_blowup)
  /\ pc' = next_pc
  /\ UNCHANGED <<poly_orbit_reg, coef_orbit_reg, status_reg, periodic_reg,
                 min_len, mp_prec, runs, args, history, raised, locals>>

PeriodicMonotone == SetMonotone("pi_monotone", "finally")

\* lines 895-904: the block is full.  The digits are written first ...
CheckpointCoef ==
  /\ pc = "ck_coef"
  /\ coef_orbit_reg' =
       append_disk_blk(coef_orbit_reg, Blk(coef_blk_startn, coef_seg))
  /\ coef_blk_startn' = coef_blk_startn + Len(coef_seg)
  /\ coef_seg' = <<>>
  /\ pc' = "ck_poly"
  /\ UNCHANGED <<poly_orbit_reg, status_reg, periodic_reg, monotone_reg,
                 min_len, mp_prec, runs, args, history, raised, n, startn, poly_seg,
                 poly_blk_startn, iter, found, original_dps, ram_blk>>

\* ... then the polynomials ...
CheckpointPoly ==
  /\ pc = "ck_poly"
  /\ poly_orbit_reg' =
       append_disk_blk(poly_orbit_reg, Blk(poly_blk_startn, poly_seg))
  /\ poly_blk_startn' = poly_blk_startn + Len(poly_seg)
  /\ poly_seg' = <<>>
  /\ pc' = "ck_monotone"
  /\ UNCHANGED <<coef_orbit_reg, status_reg, periodic_reg, monotone_reg,
                 min_len, mp_prec, runs, args, history, raised, n, startn, coef_seg,
                 coef_blk_startn, iter, found, original_dps, ram_blk>>

\* ... then the monotone data ...
CheckpointMonotone == SetMonotone("ck_monotone", "ck_status")

\* ... and the status last; the loop goes on with n + 1
CheckpointSetStatus ==
  /\ pc = "ck_status"
  /\ status_reg' = CheckpointStatus(n)
  /\ n' = n + 1
  /\ pc' = "loop"
  /\ UNCHANGED <<poly_orbit_reg, coef_orbit_reg, periodic_reg, monotone_reg,
                 min_len, mp_prec, runs, args, history, raised, startn, bufs, iter,
                 found, original_dps, ram_blk>>

\* lines 906-914: the loop is over
ExhaustedCoef == ExitCoef("ex_coef", "ex_poly")

ExhaustedPoly == ExitPoly("ex_poly", "ex_monotone")

ExhaustedMonotone == SetMonotone("ex_monotone", "ex_status")

ExhaustedSetStatus == ExitStatus("ex_status", ExhaustedStatus(max_orbit_len))

\* lines 916-919: the RAM block is dropped and mpmath.mp.dps is restored;
\* then either the return value or the exception reaches calc_orbits
Finally_forgetful ==
  /\ pc = "finally"
  /\ ram_blk' = FALSE
  /\ pc' = IF raised THEN "handler" ELSE "compress"
  /\ UNCHANGED <<registers, min_len, mp_prec, runs, args, history, raised, n,
                 startn, bufs, iter, found, original_dps>>

Finally ==
  /\ pc = "finally"
  /\ ram_blk' = FALSE
  /\ mp_prec' = DpsToPrec(original_dps)
  /\ pc' = IF raised THEN "handler" ELSE "compress"
  /\ UNCHANGED <<registers, min_len, runs, args, history, raised, n, startn,
                 bufs, iter, found, original_dps>>

\* the program points inside the try block of _single_orbit
InTry ==
  {"prec0", "loop", "hang", "digit", "round",
   "ovf_coef", "ovf_poly", "ovf_status", "neg_coef", "neg_poly", "neg_status",
   "np_coef", "np_poly", "np_status", "gt_coef", "gt_poly", "gt_status",
   "sp_first", "sp_coef", "sp_poly", "b1_poly", "b1_coef", "b0_poly",
   "b0_coef", "half_coef", "half_poly", "cl_poly", "cl_coef", "pi_status",
   "pi_periodic", "pi_monotone", "ck_coef", "ck_poly", "ck_monotone",
   "ck_status", "ex_coef", "ex_poly", "ex_monotone", "ex_status"}

\* between two steps, right after a checkpoint of this invocation
AtCheckpoint ==
  pc = "loop" /\ n > startn /\ coef_seg = <<>> /\ poly_seg = <<>>

\* A BaseException (KeyboardInterrupt, SystemExit on a signal) raised while
\* _single_orbit runs: finally, then the handler of calc_orbits.
Interrupt ==
  /\ pc \in InTry \cup {"so_start"}
  /\ raised' = TRUE
  /\ pc' = IF pc = "so_start" THEN "handler" ELSE "finally"
  /\ trail' = IF AtCheckpoint THEN trail ELSE Broken
  /\ UNCHANGED <<registers, min_len, mp_prec, runs, args, locals, repaired>>

Next ==
  \/ StartRun \/ RejectArgs \/ SelectOrbit \/ PreFix \/ Handler \/ Compress \/ EndRun
  \/ SoStart \/ InitialPrecCheck \/ LoopHead
  \/ OverflowCoef \/ OverflowPoly \/ OverflowSetStatus
  \/ NegativeCoef \/ NegativePoly \/ NegativeSetStatus
  \/ FallbackRound
  \/ NotParryCoef \/ NotParryPoly \/ NotParrySetStatus
  \/ SimpleParryFirst \/ SimpleParryCoef \/ SimpleParryPoly
  \/ Accept
  \/ TooLargeCoef \/ TooLargePoly \/ TooLargeSetStatus
  \/ B1Poly \/ B1Coef \/ B0Poly \/ B0Coef
  \/ HalfCoef \/ HalfPoly
  \/ CleanupPoly \/ CleanupCoef \/ SetPeriodicStatus \/ SetPeriodicInfo
  \/ PeriodicMonotone
  \/ CheckpointCoef \/ CheckpointPoly \/ CheckpointMonotone
  \/ CheckpointSetStatus
  \/ ExhaustedCoef \/ ExhaustedPoly \/ ExhaustedMonotone \/ ExhaustedSetStatus
  \/ Finally \/ Interrupt

Spec == Init /\ [][Next]_vars

(***************************************************************************)
(* The period search on its own.  The polynomial orbit is the orbit of a   *)
(* map (B_n is computed from B_{n-1}), so up to the names of its values it *)
(* is given by the number mu of values before the cycle and the length     *)
(* lambda of the cycle; the search runs at the first k past mu with        *)
(* B_k = B_2k, on the orbit stored in blocks of max_blk_len entries.       *)
(***************************************************************************)
OrbitValue(mu, lambda, i) ==
  IF i <= mu + lambda THEN <<i>> ELSE <<mu + 1 + ((i - mu - 1) % lambda)>>

\* the first k with B_k = B_2k
HalfIndex(mu, lambda) ==
  CHOOSE k_ \in 1..(mu + lambda) :
    /\ k_ > mu /\ k_ % lambda = 0
    /\ \A j \in 1..(k_ - 1) : ~(j > mu /\ j % lambda = 0)

\* B_1 .. B_len in blocks of blk_len entries
OrbitBlocks(mu, lambda, len, blk_len) ==
  [j \in 1..((len + blk_len - 1) \div blk_len) |->
     Blk((j - 1) * blk_len + 1,
         [i \in 1..Min2(blk_len, len - (j - 1) * blk_len) |->
            OrbitValue(mu, lambda, (j - 1) * blk_len + i)])]

InitPeriod ==
  /\ \E mu \in 0..MaxPreperiod, lambda \in 1..MaxPeriod, blk \in 1..MaxBlkLen :
       /\ max_blk_len = blk
       /\ n = 2 * HalfIndex(mu, lambda)
       /\ poly_orbit_reg = OrbitBlocks(mu, lambda, n, blk)
       \* the search is handed B_k, or a polynomial the store does not hold
       /\ Bk \in {OrbitValue(mu, lambda, n \div 2), <<0>>}
  /\ Bn = Bk /\ Bn_1 = Bk
  /\ coef_orbit_reg = <<>>
  /\ status_reg = <<0, -1, -1>>
  /\ periodic_reg = <<-1, -1>>
  /\ monotone_reg = <<1, 0>>
  /\ min_len = 0
  /\ mp_prec = DefaultPrec
  /\ runs = 0
  /\ max_orbit_len = 0 /\ max_dps = 0
  /\ proc_index = 0
  /\ beta = Betas[1]
  /\ pc = "period" /\ raised = FALSE
  /\ startn = 0
  /\ coef_seg = <<>> /\ poly_seg = <<>>
  /\ coef_blk_startn = 0 /\ poly_blk_startn = 0
  /\ Bk_next = 0
  /\ cn = 0 /\ xi = NoMpf /\ is_monotone = TRUE /\ min_blowup = 0
  /\ x_y_prec_offset = 0 /\ current_x_prec = 0 /\ current_y_prec = 0
  /\ preperiod_len = -1 /\ period_len = -1
  /\ original_dps = PrecToDps(DefaultPrec)
  /\ ram_blk = TRUE
  /\ BatchUnset
  /\ repaired = FALSE
  /\ trail = <<>>

\* line 878
CalcMinimalPeriod ==
  /\ pc = "period"
  /\ LET mp == _calc_minimal_period(n \div 2, Bk, poly_orbit_reg)
     IN IF mp = <<-1, -1>>
          THEN \* RuntimeError
               /\ raised' = TRUE /\ pc' = "finally"
               /\ UNCHANGED found
          ELSE /\ preperiod_len' = mp[1]
               /\ period_len' = mp[2]
               /\ pc' = "period_done"
               /\ UNCHANGED raised
  /\ UNCHANGED <<registers, min_len, mp_prec, runs, args, history, n,
                 startn, bufs, iter, original_dps, ram_blk>>

\* the RuntimeError leaves _single_orbit through its finally and calc_orbits
\* through its handler
NextPeriod == CalcMinimalPeriod \/ Finally \/ Handler

SpecPeriod == InitPeriod /\ [][NextPeriod]_vars

(***************************************************************************)
(* The recurrence step on its own: _calc_Bn on every monic polynomial of   *)
(* degree 2 or 3, every B_{n-1} of degree below it and every digit, with   *)
(* coefficients and digits up to MaxCoef.                                  *)
(***************************************************************************)
Coefs == (-MaxCoef)..MaxCoef

Monic(d) == {Append(low, 1) : low \in [1..d -> Coefs]}

InitBn ==
  /\ \E d \in 2..3 :
       /\ beta \in {[min_poly |-> m, man |-> Betas[1].man, exp |-> Betas[1].exp] :
                      m \in Monic(d)}
       /\ Bn_1 \in [1..d -> Coefs]
  /\ cn \in 0..MaxCoef
  /\ Bn = <<>> /\ Bk = <<>> /\ Bk_next = 0
  /\ poly_orbit_reg = <<>> /\ coef_orbit_reg = <<>>
  /\ status_reg = <<0, -1, -1>>
  /\ periodic_reg = <<-1, -1>>
  /\ monotone_reg = <<1, 0>>
  /\ min_len = 0
  /\ mp_prec = DefaultPrec
  /\ runs = 0
  /\ max_blk_len = 0 /\ max_orbit_len = 0 /\ max_dps = 0
  /\ proc_index = 0
  /\ pc = "calc_Bn" /\ raised = FALSE
  /\ n = 0 /\ startn = 0
  /\ coef_seg = <<>> /\ poly_seg = <<>>
  /\ coef_blk_startn = 0 /\ poly_blk_startn = 0
  /\ xi = NoMpf /\ is_monotone = TRUE /\ min_blowup = 0
  /\ x_y_prec_offset = 0 /\ current_x_prec = 0 /\ current_y_prec = 0
  /\ preperiod_len = -1 /\ period_len = -1 /\ original_dps = 0
  /\ ram_blk = FALSE
  /\ BatchUnset
  /\ repaired = FALSE
  /\ trail = <<>>

\* line 833: the call of _calc_Bn
CalcBn ==
  /\ pc = "calc_Bn"
  /\ Bn' = _calc_Bn(Bn_1, cn, beta.min_poly)
  /\ pc' = "calc_Bn_done"
  /\ UNCHANGED <<registers, min_len, mp_prec, runs, args, history, raised, n,
                 startn, bufs, Bn_1, Bk, Bk_next, cn, xi, is_monotone,
                 min_blowup, x_y_prec_offset, current_x_prec, current_y_prec,
                 found, original_dps, ram_blk>>

NextBn == CalcBn

SpecBn == InitBn /\ [][NextBn]_vars

(***************************************************************************)
(* calc_orbits on a group of orbits: one process per proc_index, each      *)
(* running lines 139-238 on its own, a step at a time.                     *)
(***************************************************************************)
Procs == 0..(num_procs - 1)

OrbitIndices == 0..(MaxOrbits - 1)

\* the Perron numbers of the group, index by index
BatchBetas == <<Betas[6], Betas[8], Betas[1], Betas[9]>>

\* a group in which every orbit that is run gets a length other than 0
LaterBetas == <<Betas[6], Betas[7], Betas[1], Betas[9]>>

\* a test that lets a lower rank take the block as well
Owns_upto(blk_index, num_procs_, proc_index_) ==
  blk_index % num_procs_ <= proc_index_

\* line 158
Owns(blk_index, num_procs_, proc_index_) ==
  blk_index % num_procs_ = proc_index_

\* lines 162-164
CompleteBlk(blk, max_len) ==
  \A j \in 1..Len(blk.seg) :
    blk.seg[j][1] >= 0 => blk.seg[j][1] >= max_len

\* line 168
IncompleteIndices(blk, max_len) ==
  SelectSeq([j \in 1..Len(blk.seg) |-> blk.startn + j - 1],
            LAMBDA index :
              IncompleteOrbit(blk.seg[index - blk.startn + 1][1], max_len))

\* lines 466-488: the least non-negative orbit length of the group, -1 when
\* there is none
ScanMinLen(blks) ==
  IF \A b \in 1..Len(blks) : \A j \in 1..Len(blks[b].seg) :
       blks[b].seg[j][1] < 0
    THEN -1
    ELSE CHOOSE m \in UNION {{blks[b].seg[j][1] : j \in 1..Len(blks[b].seg)} :
                             b \in 1..Len(blks)} :
           /\ m >= 0
           /\ \A b \in 1..Len(blks) : \A j \in 1..Len(blks[b].seg) :
                blks[b].seg[j][1] >= 0 => m <= blks[b].seg[j][1]

\* a write that overwrites the whole block with the status
PutStatus_whole_block(blks, index, status) ==
  [b \in 1..Len(blks) |->
     IF blks[b].startn <= index /\ index < blks[b].startn + Len(blks[b].seg)
       THEN Blk(blks[b].startn, [j \in 1..Len(blks[b].seg) |-> status])
       ELSE blks[b]]

\* status_reg.set(poly_apri, index, status)
PutStatus(blks, index, status) ==
  [b \in 1..Len(blks) |->
     IF blks[b].startn <= index /\ index < blks[b].startn + Len(blks[b].seg)
       THEN Blk(blks[b].startn,
                [blks[b].seg EXCEPT ![index - blks[b].startn + 1] = status])
       ELSE blks[b]]

\* an orbit as calc_orbits_setup leaves it
FreshRec == [poly |-> <<>>, coef |-> <<>>, periodic |-> <<-1, -1>>]

\* the blocks of the given lengths, laid out from index 0
RECURSIVE LayOut(_, _, _)
LayOut(lens, b, startn_) ==
  IF b > Len(lens) THEN <<>>
  ELSE <<Blk(startn_, [j \in 1..lens[b] |-> <<0, -1, -1>>])>>
       \o LayOut(lens, b + 1, startn_ + lens[b])

RECURSIVE SumSeq(_, _)
SumSeq(lens, b) == IF b > Len(lens) THEN 0 ELSE lens[b] + SumSeq(lens, b + 1)

\* the ways perron_polys_reg may be cut into blocks
Layouts ==
  {lens \in UNION {[1..k -> 1..MaxOrbits] : k \in 1..MaxOrbits} :
     SumSeq(lens, 1) = MaxOrbits}

BatchBeta(batch_, index) == batch_[(index % Len(batch_)) + 1]

\* what an earlier run with the same arguments left of the orbit, where that
\* is an orbit that run returned from
Earlier(one) ==
  IF ~one.hang THEN one
  ELSE [poly |-> <<>>, coef |-> <<>>, periodic |-> <<-1, -1>>,
        status |-> <<0, -1, -1>>]

RECURSIVE PutAll(_, _, _, _)
PutAll(blks, done, outs, index) ==
  IF index >= MaxOrbits THEN blks
  ELSE PutAll(IF index \in done
                THEN PutStatus(blks, index, Earlier(outs[index]).status)
                ELSE blks,
              done, outs, index + 1)

InitWorkers ==
  /\ poly_orbit_reg = <<>> /\ coef_orbit_reg = <<>>
  /\ status_reg = <<0, -1, -1>>
  /\ periodic_reg = <<-1, -1>>
  /\ monotone_reg = <<1, 0>>
  /\ min_len = 0
  /\ mp_prec = DefaultPrec
  /\ runs = 0
  /\ max_blk_len = MaxBlkLen /\ max_orbit_len = MaxOrbitLen
  /\ max_dps \in DpsChoices
  /\ proc_index = 0
  /\ beta = Betas[1]
  /\ pc = "workers" /\ raised = FALSE
  /\ LocalsUnset
  /\ repaired = FALSE
  /\ trail = <<>>
  /\ num_procs \in 1..MaxProcs
  /\ \E batch_ \in {BatchBetas, LaterBetas} :
       outcomes = [index \in OrbitIndices |->
                     OnePass(BatchBeta(batch_, index), max_blk_len, max_dps,
                             max_orbit_len)]
  /\ \E lens \in Layouts, done \in SUBSET OrbitIndices :
       /\ status_blks = PutAll(LayOut(lens, 1, 0), done, outcomes, 0)
       /\ orbit_recs = [index \in OrbitIndices |->
                          IF index \in done
                            THEN LET e == Earlier(outcomes[index])
                                 IN [poly |-> e.poly, coef |-> e.coef,
                                     periodic |-> e.periodic]
                            ELSE FreshRec]
  \* min_len as the pass of an earlier run left it: that of the group before
  \* that run (0, all orbits fresh) or after it
  /\ apos_min_len \in {0, ScanMinLen(status_blks)}
  /\ apos_update = -1
  \* lines 124-140: the arguments are valid; proc_index 0 goes into
  \* _update_status_reg_apos, the others straight on
  /\ wpc = [p \in Procs |-> IF p = 0 THEN "scan" ELSE "min_len"]
  /\ wmin = [p \in Procs |-> -1]
  /\ wblk = [p \in Procs |-> 0]
  /\ wtodo = [p \in Procs |-> <<>>]
  /\ owners = {} /\ writers = {} /\ apos_writers = {} /\ early_readers = {}
  /\ ResetupUnset /\ PolysUnset

\* what the workers are given and never change
given == <<num_procs, outcomes, resetup, polys>>

\* everything of the run of the one orbit
single ==
  <<registers, min_len, mp_prec, runs, max_blk_len, max_orbit_len, max_dps,
    proc_index, beta, pc, raised, locals, history>>

\* the pass of proc_index 0 has set the apos
PassDone == 0 \in apos_writers

\* lines 456-491: the scan, with the registers open read-only.  The test of
\* line 487 compares the number with the AposInfo object, so the update is
\* always marked.
UpdateScan ==
  /\ wpc[0] = "scan"
  /\ apos_update' = ScanMinLen(status_blks)
  /\ wpc' = [wpc EXCEPT ![0] = "set_apos"]
  /\ UNCHANGED <<single, given, status_blks, orbit_recs, apos_min_len,
                 wmin, wblk, wtodo, owners, writers, apos_writers,
                 early_readers>>

\* lines 493-500
UpdateWrite ==
  /\ wpc[0] = "set_apos"
  /\ apos_min_len' = apos_update
  /\ apos_writers' = apos_writers \cup {0}
  /\ wpc' = [wpc EXCEPT ![0] = "min_len"]
  /\ UNCHANGED <<single, given, status_blks, orbit_recs, apos_update,
                 wmin, wblk, wtodo, owners, writers, early_readers>>

\* lines 151-154
ReadMinLen ==
  \E p \in Procs :
    /\ wpc[p] = "min_len"
    /\ wmin' = [wmin EXCEPT ![p] = apos_min_len]
    /\ early_readers' = IF PassDone THEN early_readers
                        ELSE early_readers \cup {p}
    /\ wpc' = [wpc EXCEPT ![p] =
                 IF CompleteToMaxOrbitLen(apos_min_len, max_orbit_len)
                   THEN "done" ELSE "blk"]
    /\ UNCHANGED <<single, given, status_blks, orbit_recs, apos_min_len,
                   apos_update, wblk, wtodo, owners, writers, apos_writers>>

\* lines 156-168: on to the next block of the enumeration that passes the test
\* of line 158
NextBlk ==
  \E p \in Procs :
    /\ wpc[p] = "blk"
    /\ LET mine == {c \in wblk[p]..(Len(status_blks) - 1) :
                     Owns(c, num_procs, p)}
       IN IF mine = {}
            THEN /\ wpc' = [wpc EXCEPT ![p] = "done"]
                 /\ UNCHANGED <<wblk, wtodo, owners>>
            ELSE LET blk_index == CHOOSE c \in mine : \A d \in mine : c <= d
                     blk == status_blks[blk_index + 1]
                 IN /\ owners' = owners \cup {<<p, blk_index>>}
                    /\ IF CompleteBlk(blk, max_orbit_len)
                         THEN /\ wblk' = [wblk EXCEPT ![p] = blk_index + 1]
                              /\ UNCHANGED <<wpc, wtodo>>
                         ELSE /\ wtodo' = [wtodo EXCEPT ![p] =
                                   IncompleteIndices(blk, max_orbit_len)]
                              /\ wpc' = [wpc EXCEPT ![p] = "orbit"]
                              /\ wblk' = [wblk EXCEPT ![p] = blk_index]
    /\ UNCHANGED <<single, given, status_blks, orbit_recs, apos_min_len,
                   apos_update, wmin, writers, apos_writers, early_readers>>

\* lines 223-226: zip_longest pads the shorter list of intervals with None,
\* and unpacking None into (startn, length) raises TypeError
UnpackFails(poly, coef) == Len(poly) # Len(coef)

\* lines 177-238: _fix_problems, then _single_orbit on the next incomplete
\* index, run to its return, then the compression of its blocks
RunOrbit ==
  \E p \in Procs :
    /\ wpc[p] = "orbit"
    /\ LET index == Head(wtodo[p])
           rec == orbit_recs[index]
           status == GetIndex(status_blks, index)
           fixed == _fix_problems(rec.poly, rec.coef, status, rec.periodic)
           quit == ~fixed /\ QuitEarly(status, rec.periodic)
           one == outcomes[index]
       IN /\ writers' = writers \cup {<<p, index>>}
          /\ IF quit
               THEN UNCHANGED <<status_blks, orbit_recs>>
               ELSE /\ status_blks' = PutStatus(status_blks, index, one.status)
                    /\ orbit_recs' = [orbit_recs EXCEPT ![index] =
                                        [poly |-> one.poly, coef |-> one.coef,
                                         periodic |-> one.periodic]]
          /\ IF ~quit /\ one.hang
               THEN /\ wpc' = [wpc EXCEPT ![p] = "hang"]
                    /\ UNCHANGED <<wblk, wtodo>>
               ELSE IF UnpackFails(orbit_recs'[index].poly,
                                   orbit_recs'[index].coef)
               THEN /\ wpc' = [wpc EXCEPT ![p] = "crashed"]
                    /\ UNCHANGED <<wblk, wtodo>>
               ELSE /\ wtodo' = [wtodo EXCEPT ![p] = Tail(@)]
                    /\ IF Len(wtodo[p]) = 1
                         THEN /\ wblk' = [wblk EXCEPT ![p] = @ + 1]
                              /\ wpc' = [wpc EXCEPT ![p] = "blk"]
                         ELSE UNCHANGED <<wblk, wpc>>
    /\ UNCHANGED <<single, given, apos_min_len, apos_update, wmin, owners,
                   apos_writers, early_readers>>

\* lines 209-219: an exception out of _single_orbit, here one raised before
\* it has written anything, is raised again after _fix_problems
CrashOrbit ==
  \E p \in Procs :
    /\ wpc[p] = "orbit"
    /\ writers' = writers \cup {<<p, Head(wtodo[p])>>}
    /\ wpc' = [wpc EXCEPT ![p] = "crashed"]
    /\ UNCHANGED <<single, given, status_blks, orbit_recs, apos_min_len,
                   apos_update, wmin, wblk, wtodo, owners, apos_writers,
                   early_readers>>

NextWorkers ==
  \/ UpdateScan \/ UpdateWrite \/ ReadMinLen \/ NextBlk
  \/ RunOrbit \/ CrashOrbit

SpecWorkers == InitWorkers /\ [][NextWorkers]_vars

(***************************************************************************)
(* Properties.                                                             *)
(***************************************************************************)
\* _single_orbit has returned to calc_orbits after recording periodicity in
\* this invocation (the locals are those of the invocation that returned)
ReturnedPeriodic == pc = "compress" /\ preperiod_len # -1

\* C1: every invocation of _single_orbit that ends by recording periodicity
\* (half-index detector, B_n = B_1, B_n = B_0 or simple Parry), whatever
\* max_blk_len and the resume point, leaves a polynomial orbit of length
\* preperiod + period, a digit orbit of length preperiod + period + 1 and
\* the status (-1, -1, -1).
C1_PeriodicLengths ==
  ReturnedPeriodic =>
    /\ periodic_reg = <<preperiod_len, period_len>>
    /\ RegLen(poly_orbit_reg) = preperiod_len + period_len
    /\ RegLen(coef_orbit_reg) = preperiod_len + period_len + 1
    /\ status_reg = PeriodicStatus

\* _single_orbit has returned through the half-index detector (no other
\* return leaves B_{n-1} = B_n = B_k with the principal orbit shorter than n)
ReturnedHalfIndex ==
  /\ ReturnedPeriodic
  /\ n % 2 = 0 /\ Bk = Bn /\ Bn_1 = Bn
  /\ preperiod_len + period_len < n

\* C1, for the returns of the half-index detector only
C1_HalfIndexLengths ==
  ReturnedHalfIndex =>
    /\ RegLen(poly_orbit_reg) = preperiod_len + period_len
    /\ RegLen(coef_orbit_reg) = preperiod_len + period_len + 1

\* the stored polynomial B_i
Stored(i) == GetIndex(poly_orbit_reg, i)

\* C2: when B_k = B_2k, _calc_minimal_period returns (m, p) with p the
\* smallest period (the smallest p >= 1 with B_k = B_{k+p}) and m the
\* smallest pre-period for it (the first position whose iterate equals the
\* one p places later); the stored sequence B_1 .. B_2k repeats nowhere
\* with a smaller period.
C2_MinimalPeriod ==
  pc = "period_done" =>
    LET k_ == n \div 2
        m == preperiod_len
        p_ == period_len
    IN /\ p_ >= 1 /\ p_ <= k_
       /\ Stored(k_) = Stored(k_ + p_)
       /\ \A q \in 1..(p_ - 1) : Stored(k_) # Stored(k_ + q)
       /\ m >= 0 /\ m < k_
       /\ Stored(m + 1) = Stored(m + 1 + p_)
       /\ \A i \in 1..m : Stored(i) # Stored(i + p_)
       /\ \A q \in 1..(p_ - 1) : \A i \in 1..(n - q) : Stored(i) # Stored(i + q)

\* a search that returned a proper divisor of k and a non-empty pre-period
C2_Witness ==
  /\ pc = "period_done"
  /\ preperiod_len > 0
  /\ period_len > 1 /\ period_len < n \div 2

\* all runs so far had the same max_blk_len and max_dps and were left only
\* at a checkpoint or by a return, and the last invocation has returned
ResumedReturn == pc = "compress" /\ trail # <<>> /\ trail # Broken

\* C3: round trip of resumption.  For the same orbit and parameters, one
\* invocation run to its outcome, and any sequence of invocations each
\* stopped at a checkpoint or at a LengthExhausted boundary and resumed,
\* leave the same digit and polynomial sequences and PeriodicityRecord.
C3_RoundTrip ==
  ResumedReturn =>
    LET one == OnePass(beta, trail[1], trail[2], max_orbit_len)
    IN /\ Flat(poly_orbit_reg) = Flat(one.poly)
       /\ Flat(coef_orbit_reg) = Flat(one.coef)
       /\ periodic_reg = one.periodic

\* the first run of a register agrees with OnePass
OnePassAgrees ==
  (ResumedReturn /\ runs = 1) =>
    LET one == OnePass(beta, trail[1], trail[2], max_orbit_len)
    IN /\ poly_orbit_reg = one.poly
       /\ coef_orbit_reg = one.coef
       /\ status_reg = one.status
       /\ periodic_reg = one.periodic

\* C4: crash consistency.  When the handler of calc_orbits runs after an
\* interruption, every index up to the persisted computed_length that is in
\* both stores stays in both stores, and the computed_length stays.
C4_CrashConsistency ==
  [][pc = "handler" =>
       \A i \in 1..status_reg[1] :
         (HasIndex(poly_orbit_reg, i) /\ HasIndex(coef_orbit_reg, i)) =>
           /\ HasIndex(poly_orbit_reg', i) /\ HasIndex(coef_orbit_reg', i)
           /\ status_reg' = status_reg]_vars

\* C5: after _fix_problems has wiped the orbit, the following invocation of
\* _single_orbit, unless an exception ends it, starts the orbit again at
\* index 1.
C5_RepairRestarts ==
  [][(pc = "so_start" /\ repaired /\ ~raised') =>
       (pc' = "prec0" /\ startn' = 1)]_vars

\* C6: an invocation on an orbit whose periodic record is set or whose
\* overflow index is set returns at once; the five records and the working
\* precision are as they were.
C6_EarlyReturnNoOp ==
  [][(pc = "so_start" /\ (periodic_reg[1] # -1 \/ status_reg[3] # -1)) =>
       (pc' \in {"compress", "handler"} /\ UNCHANGED <<registers, mp_prec>>)]_vars

\* an invocation has returned at lines 563-566 from an orbit that overflowed
\* in an earlier run
C6_Witness ==
  /\ pc = "compress" /\ runs > 1 /\ startn = 0
  /\ status_reg[3] # -1
  /\ mp_prec = DpsToPrec(max_dps)

\* C7: calc_orbits on an orbit whose status holds a precision error index
\* does not enter _single_orbit for it.
C7_PrecisionFailedNoOp ==
  [][(pc = "select" /\ status_reg[2] # -1) => pc' = "end"]_vars

\* the blocks of the store after a step: appended by the step with at most
\* max_len entries, or there before and not grown
BlocksWithin(reg, reg_next, max_len) ==
  \A i \in 1..Len(reg_next) :
    IF i > Len(reg) THEN Len(reg_next[i].seg) <= max_len
    ELSE Len(reg_next[i].seg) <= Len(reg[i].seg)

\* C8: checkpoint boundary.  No step leaves a buffer of max_blk_len entries
\* behind; the status (n, -1, -1) is written when both buffers have been
\* appended and cleared and their start index is n + 1; no block is appended
\* with more than max_blk_len entries and no block of the store grows.
C8_CheckpointBoundary ==
  [][/\ pc = "loop" => Len(coef_seg) < max_blk_len /\ Len(poly_seg) < max_blk_len
     /\ pc = "ck_status" =>
          /\ raised' \/ (status_reg' = <<n, -1, -1>> /\ pc' = "loop")
          /\ coef_seg = <<>> /\ poly_seg = <<>>
          /\ coef_blk_startn = n + 1 /\ poly_blk_startn = n + 1
          /\ RegLen(coef_orbit_reg) = n /\ RegLen(poly_orbit_reg) = n
          /\ Len(coef_orbit_reg[Len(coef_orbit_reg)].seg) = max_blk_len
          /\ Len(poly_orbit_reg[Len(poly_orbit_reg)].seg) = max_blk_len
     /\ BlocksWithin(coef_orbit_reg, coef_orbit_reg', max_blk_len)
     /\ BlocksWithin(poly_orbit_reg, poly_orbit_reg', max_blk_len)]_vars

\* the loop goes on after a checkpoint of this invocation
C8_Witness ==
  /\ pc = "loop" /\ n > startn /\ n <= max_orbit_len
  /\ status_reg = <<n - 1, -1, -1>>
  /\ coef_seg = <<>> /\ poly_seg = <<>>
  /\ RegLen(coef_orbit_reg) = n - 1 /\ RegLen(poly_orbit_reg) = n - 1

\* C9: LengthExhausted.  The status (max_orbit_len, -1, -1) is written over
\* flushed stores of that length; a run whose max_orbit_len the status has
\* reached leaves the orbit alone; a run with a larger one enters
\* _single_orbit, which starts at the index after the stored length from the
\* polynomial stored there.
C9_LengthExhausted ==
  [][/\ pc = "ex_status" =>
          /\ raised' \/ status_reg' = <<max_orbit_len, -1, -1>>
          /\ n = max_orbit_len + 1
          /\ RegLen(coef_orbit_reg) = max_orbit_len
          /\ RegLen(poly_orbit_reg) = max_orbit_len
     /\ (pc = "select" /\ status_reg[1] >= 1 /\ status_reg[2] = -1
           /\ status_reg[3] = -1) =>
          IF status_reg[1] >= max_orbit_len
            THEN pc' = "end" /\ UNCHANGED registers
            ELSE pc' = "fix"
     /\ (pc = "fix" /\ status_reg[1] >= 1 /\ status_reg[2] = -1
           /\ status_reg[3] = -1) =>
          pc' = "so_start" /\ UNCHANGED registers
     /\ (pc = "so_start" /\ status_reg[1] >= 1 /\ status_reg[2] = -1
           /\ status_reg[3] = -1) =>
          \/ pc' = "handler"
          \/ /\ pc' = "prec0"
             /\ startn' = status_reg[1] + 1
             /\ Bn_1' = Stored(status_reg[1])
             /\ coef_blk_startn' = startn' /\ poly_blk_startn' = startn'
     /\ (pc = "prec0" /\ pc' = "loop") => n' = startn]_vars

\* an orbit that stopped at max_orbit_len inside a block is resumed by a run
\* with a larger max_orbit_len
C9_Witness ==
  /\ pc = "loop" /\ n = startn /\ startn > 1
  /\ trail # <<>> /\ trail # Broken
  /\ (startn - 1) % trail[1] # 0
  /\ status_reg = <<startn - 1, -1, -1>>
  /\ Bn_1 = Stored(startn - 1)

\* C10: when _single_orbit has returned and the periodic record is not set,
\* both stores have the length that the status gives.
C10_NonPeriodicLengths ==
  (pc = "compress" /\ periodic_reg[1] = -1) =>
    /\ RegLen(poly_orbit_reg) = status_reg[1]
    /\ RegLen(coef_orbit_reg) = status_reg[1]

\* a return with a precision error after some digits were stored
C10_Witness ==
  /\ pc = "compress" /\ periodic_reg[1] = -1
  /\ status_reg[2] # -1 /\ status_reg[1] > 0
  /\ RegLen(coef_orbit_reg) = status_reg[1]

\* _single_orbit has returned from the simple Parry exit of step n
ReturnedSimpleParry ==
  /\ pc = "compress" /\ startn > 0 /\ Bn = ZeroPoly(deg)
  /\ preperiod_len = n - 1 /\ period_len = 1

\* C11: simple Parry termination.  After the exit of lines 792-816 the digit
\* store ends in the digit 0 and is one entry longer than the polynomial
\* store, the periodic record is set and the status is (-1, -1, -1).
C11_SimpleParry ==
  ReturnedSimpleParry =>
    /\ RegLen(coef_orbit_reg) = RegLen(poly_orbit_reg) + 1
    /\ RegLen(coef_orbit_reg) = n + 1
    /\ Flat(coef_orbit_reg)[n + 1] = 0
    /\ Flat(coef_orbit_reg)[n] = cn
    /\ periodic_reg = <<n - 1, 1>>
    /\ status_reg = <<-1, -1, -1>>

\* the last digit filled the block, so the terminating 0 is a block of its own
C11_Witness ==
  /\ ReturnedSimpleParry
  /\ Len(coef_orbit_reg) >= 2
  /\ coef_orbit_reg[Len(coef_orbit_reg)] = Blk(n + 1, <<0>>)

\* C12: precision failure.  A step whose xi is negative takes the exit of
\* lines 754-766: the buffers are flushed and the status becomes
\* (n - 1, n, -1) with nothing appended for step n.
C12_PrecisionFailure ==
  [][/\ (pc = "loop" /\ n <= max_orbit_len /\ ~raised' /\ xi'.man < 0) =>
          pc' = "neg_coef"
     /\ (pc \in {"neg_status", "np_status"} /\ ~raised') =>
          /\ status_reg' = <<n - 1, n, -1>>
          /\ RegLen(coef_orbit_reg) = n - 1
          /\ RegLen(poly_orbit_reg) = n - 1]_vars

C14_Terminates == pc # "hang"

\* _single_orbit has returned from the exit of lines 843-854: the B_n of
\* the last step is B_1 and was not taken over into B_{n-1}
ReturnedAtB1 ==
  /\ pc = "compress" /\ startn > 0 /\ n >= 2
  /\ Bn = B1(beta) /\ Bn_1 # Bn
  /\ preperiod_len # -1

C16_GuaranteedCleanup ==
  /\ pc = "so_start" => mp_prec = DpsToPrec(max_dps) /\ ~ram_blk
  /\ pc \in {"compress", "handler"} =>
       ~ram_blk /\ mp_prec = DpsToPrec(max_dps)

\* an exception left the loop while the precision was raised above that of
\* max_dps and the buffer was registered
C16_Witness ==
  /\ pc = "handler" /\ raised /\ startn > 0 /\ n >= 1
  /\ ~ram_blk
  /\ current_x_prec > 0 /\ MpPrec(current_x_prec) # DpsToPrec(max_dps)
  /\ mp_prec = DpsToPrec(max_dps)

(***************************************************************************)
(* C17.  Static partition.  No status block is entered by two values of    *)
(* proc_index, no orbit is handed to _single_orbit by two of them, and     *)
(* every block of the group passes the test of line 158 for exactly one    *)
(* proc_index of 0..num_procs-1.                                           *)
(***************************************************************************)
C17_StaticPartition ==
  /\ \A o1 \in owners, o2 \in owners : o1[2] = o2[2] => o1[1] = o2[1]
  /\ \A w1 \in writers, w2 \in writers : w1[2] = w2[2] => w1[1] = w2[1]
  /\ \A blk_index \in 0..(Len(status_blks) - 1) :
       Cardinality({p \in Procs : Owns(blk_index, num_procs, p)}) = 1

\* three workers have each run an orbit of a block of their own
C17_Witness ==
  /\ num_procs = 3
  /\ \A p \in Procs : \E w \in writers : w[1] = p
  /\ \A p \in Procs : wpc[p] = "done"

\* the orbit entry of the status blocks
StatusAt(blks, index) == GetIndex(blks, index)

(***************************************************************************)
(* C18.  Coordinator ordering.  No worker has read min_len (line 151)      *)
(* before the pass of proc_index 0 has set it (line 500), and nobody but   *)
(* proc_index 0 sets it.                                                   *)
(***************************************************************************)
C18_CoordinatorOrdering ==
  /\ early_readers = {}
  /\ apos_writers \subseteq {0}

\* the half of C18 the code keeps: only proc_index 0 calls set_apos
OnlyRankZeroWrites == apos_writers \subseteq {0}

RECURSIVE DirectDigits(_, _, _)
DirectDigits(bt, x, k) ==
  IF k = 0 THEN <<>>
  ELSE LET prod == [man |-> bt.man * x.man, exp |-> bt.exp + x.exp]
       IN <<MpfFloor(prod)>>
          \o DirectDigits(bt, [man |-> FracMan(prod), exp |-> prod.exp], k - 1)

\* the first invocation for x^2 - 3x + 1 has returned
ReturnedDegree2 ==
  /\ pc = "compress" /\ runs = 1 /\ startn = 1
  /\ beta = Betas[1]

\* what the example says is persisted
Degree2Example ==
  /\ Flat(coef_orbit_reg) = <<2, 1>>
  /\ Flat(poly_orbit_reg) = << <<-2, 1>> >>
  /\ periodic_reg = <<0, 1>>
  /\ status_reg = <<-1, -1, -1>>
  /\ Flat(coef_orbit_reg) = DirectDigits(beta, [man |-> 1, exp |-> 0], 2)

(***************************************************************************)
(* C20.  Degree-2 example.  For x^2 - 3x + 1 a fresh run, here one that is *)
(* allowed two iterates (max_orbit_len >= 2) and has max_dps = 15, ends    *)
(* with the digits (2, 1), the polynomial orbit (x - 2), the periodic      *)
(* record (0, 1) and the status (-1, -1, -1), and the digits are those of  *)
(* the beta-transformation iterated on 1.                                  *)
(***************************************************************************)
C20_Degree2Example ==
  (ReturnedDegree2 /\ max_orbit_len >= 2 /\ max_dps = 15) => Degree2Example

\* the example holds of the runs that get past the test of line 653
Degree2PastInitialCheck ==
  (ReturnedDegree2 /\ max_orbit_len >= 2 /\ max_dps = 15 /\ n >= 1)
    => Degree2Example

\* such a run has returned at n = 2, where B_2 = B_1
Degree2Reached ==
  /\ ReturnedDegree2 /\ max_orbit_len >= 2 /\ max_dps = 15
  /\ n = 2 /\ Bn = B1(beta) /\ cn = 1 /\ Degree2Example

\* the evaluations of xi that the step about to start makes
StepEvals ==
  LET p0 == StartPrec(x_y_prec_offset, LowerBound(deg), max_prec)
  IN Settle(Bn_1, beta, p0.x_prec, p0.y_prec, x_y_prec_offset, max_prec).evals

\* a step of the loop is about to start
AtStep == pc = "loop" /\ n <= max_orbit_len

(***************************************************************************)
(* C21.  Precision bounds.  Every precision at which a step evaluates xi,  *)
(* the one the step starts with and the ones it escalates to, lies between *)
(* x_prec_lower_bound and max_prec, and the lower bound is 1 for degree 2. *)
(***************************************************************************)
C21_PrecisionBounds ==
  /\ AtStep =>
       \A x_prec \in StepEvals :
         LowerBound(deg) <= x_prec /\ x_prec <= max_prec
  /\ AtStep /\ deg = 2 => LowerBound(deg) = 1
  /\ pc \in {"digit", "round"} =>
       LowerBound(deg) <= current_x_prec /\ current_x_prec <= max_prec

\* a step that escalates and ends at max_prec
C21_Witness ==
  /\ AtStep /\ n >= 2
  /\ Cardinality(StepEvals) >= 2
  /\ max_prec \in StepEvals

(***************************************************************************)
(* C22.  Immutability of the periodic record.  Once periodic_reg holds     *)
(* values other than (-1, -1), no step of any later run, repair included,  *)
(* changes it.                                                             *)
(***************************************************************************)
C22_PeriodicImmutable ==
  [][periodic_reg # <<-1, -1>> => periodic_reg' = periodic_reg]_vars

\* a later run has repaired an orbit whose periodic record is set and has
\* gone into _single_orbit again
C22_Witness ==
  /\ periodic_reg # <<-1, -1>>
  /\ runs >= 2 /\ repaired /\ pc = "so_start"
  /\ status_reg = <<0, -1, -1>>

\* every entry of the register keeps its index and its value
Kept(reg, reg_next) ==
  \A i \in 1..(MaxOrbitLen + 1) :
    HasIndex(reg, i) =>
      HasIndex(reg_next, i) /\ GetIndex(reg_next, i) = GetIndex(reg, i)

\* the register is cut down to its first entries, which keep their values
Truncated(reg, reg_next) ==
  \E len \in 0..RegLen(reg) :
    \A i \in 1..(MaxOrbitLen + 1) :
      /\ HasIndex(reg_next, i) = (HasIndex(reg, i) /\ i <= len)
      /\ HasIndex(reg_next, i) => GetIndex(reg_next, i) = GetIndex(reg, i)

\* a step that only appends, or that truncates in _cleanup_register
AppendOnlyStep ==
  /\ \/ Kept(poly_orbit_reg, poly_orbit_reg')
     \/ pc = "cl_poly" /\ Truncated(poly_orbit_reg, poly_orbit_reg')
  /\ \/ Kept(coef_orbit_reg, coef_orbit_reg')
     \/ pc = "cl_coef" /\ Truncated(coef_orbit_reg, coef_orbit_reg')

(***************************************************************************)
(* C23.  Append-only orbit data.  In every step of every run each of the   *)
(* two stores either keeps all its entries, index by index, or is cut down *)
(* to a prefix by _cleanup_register when periodicity has been found.       *)
(***************************************************************************)
C23_AppendOnly == [][AppendOnlyStep]_vars

\* the steps other than the repair of _fix_problems are append-only
AppendOnlyButRepair == [][pc \notin {"fix", "handler"} => AppendOnlyStep]_vars

\* the orbit data are consistent, in the words of the resume-time check
ConsistentData ==
  /\ (poly_orbit_reg # <<>>) = (coef_orbit_reg # <<>>)
  /\ poly_orbit_reg # <<>> =>
       \/ /\ periodic_reg # <<-1, -1>>
          /\ Len(Flat(poly_orbit_reg)) = periodic_reg[1] + periodic_reg[2]
          /\ Len(Flat(coef_orbit_reg)) = periodic_reg[1] + periodic_reg[2] + 1
          /\ status_reg = <<-1, -1, -1>>
       \/ /\ periodic_reg = <<-1, -1>>
          /\ Len(Flat(poly_orbit_reg)) = status_reg[1]
          /\ Len(Flat(coef_orbit_reg)) = status_reg[1]

\* a call of _fix_problems does what the data call for
CheckStep ==
  pc \in {"fix", "handler"} =>
    IF ConsistentData
      THEN UNCHANGED <<registers, repaired>>
      ELSE /\ repaired'
           /\ poly_orbit_reg' = <<>> /\ coef_orbit_reg' = <<>>
           /\ status_reg' = <<0, -1, -1>>

(***************************************************************************)
(* C24.  The resume-time check.  Where calc_orbits calls _fix_problems     *)
(* (before _single_orbit and in the exception handler), consistent data    *)
(* are left exactly as they are and nothing is reported; on any other data *)
(* the check reports a repair, which empties both stores and sets the      *)
(* status to (0, -1, -1).                                                  *)
(***************************************************************************)
C24_FixProblemsNoOp ==
  [][CheckStep]_vars

\* a later run has passed the check with stored data and no repair
C24_Witness ==
  /\ pc = "so_start" /\ runs >= 2 /\ ~repaired
  /\ poly_orbit_reg # <<>> /\ ConsistentData

\* a repair has been made
RepairMade == pc = "so_start" /\ repaired

\* a call of calc_orbits whose arguments fail one of the five tests ends with
\* the exception, and with every register and min_len as they were
RejectedStep ==
  /\ pc = "idle" /\ pc' # "idle"
  /\ \/ max_blk_len' <= 0 \/ max_orbit_len' <= 0 \/ max_dps' <= 0
     \/ num_procs' <= 0 \/ proc_index' < 0
  => /\ raised' /\ pc' = "end"
     /\ UNCHANGED <<registers, min_len, mp_prec, ram_blk>>

PolyAt(i) ==
  IF i = 0 THEN B0(deg) ELSE GetIndex(PolyBlks(poly_seg), i)

CoefAt(i) ==
  GetIndex(IF Len(coef_seg) > 0
             THEN coef_orbit_reg \o <<Blk(coef_blk_startn, coef_seg)>>
             ELSE coef_orbit_reg, i)

\* at a step the entries 1..n-1 are the iterates of the recurrence, and the
\* cursor stands at the half of the next even step
CursorAligned ==
  pc \in {"loop", "digit", "round"} =>
    /\ Bk_next = (n + 1) \div 2
    /\ \A i \in 1..(n - 1) :
         PolyAt(i) = _calc_Bn(PolyAt(i - 1), CoefAt(i), beta.min_poly)

\* step n has accepted B_n and appended it
Appended == pc = "digit" /\ poly_seg' = Append(poly_seg, Bn')

HalfSpeedStep ==
  /\ Appended /\ n % 2 = 0 =>
       /\ Bk' = GetIndex(PolyBlks(poly_seg'), n \div 2)
       /\ Bk_next' = Bk_next + 1
  /\ Appended /\ n % 2 # 0 => UNCHANGED <<Bk, Bk_next>>
  /\ pc = "digit" /\ (pc' = "half_coef" \/ (Appended /\ pc' = "finally")) =>
       n % 2 = 0 /\ Bk' = Bn'

(***************************************************************************)
(* C26: on a fresh start and on a resume at any start_n > 1, at every even *)
(* step n = 2k the iterate drawn from the read cursor and compared with    *)
(* B_n is B_k, the cursor is not advanced on odd steps, and the period     *)
(* search is invoked only on even steps where the two are equal.           *)
(***************************************************************************)
C26_HalfSpeedCursor == [][CursorAligned /\ HalfSpeedStep]_vars

\* a run resumed at an odd start_n > 1 has drawn B_k at the even step
\* n = 2k = start_n + 1 and found it different from B_n
C26_Witness ==
  /\ pc = "loop" /\ startn > 1 /\ startn % 2 = 1 /\ n = startn + 2
  /\ Bk = PolyAt((n - 1) \div 2) /\ Bk # PolyAt(n - 1)

\* the last entries of the store are the entries of the buffer
FlushedInto(reg, seg) ==
  LET all == Flat(reg)
  IN /\ Len(seg) <= Len(all)
     /\ SubSeq(all, Len(all) - Len(seg) + 1, Len(all)) = seg

ConstantOneStep ==
  \* B_n = 1 was accepted: the exit is taken, the cursor is not drawn from
  \* and the period search is not entered
  /\ pc = "digit" /\ pc' \notin {"finally", "gt_coef"} /\ Bn' = B0(deg) =>
       /\ pc' = "b0_poly"
       /\ UNCHANGED <<Bk, Bk_next, poly_seg, found>>
  \* the exit returns
  /\ pc = "pi_monotone" /\ pc' = "finally" /\ ~raised' /\ Bn = B0(deg) =>
       /\ periodic_reg' = <<0, n>>
       /\ status_reg' = <<-1, -1, -1>>
       /\ FlushedInto(coef_orbit_reg', coef_seg)
       /\ FlushedInto(poly_orbit_reg', poly_seg)
       /\ Len(Flat(coef_orbit_reg')) = n

(***************************************************************************)
(* C27: when an accepted B_n is the constant polynomial 1, the orbit is    *)
(* recorded as periodic with pre-period 0 and period n, the buffers are    *)
(* flushed, the status is set to (-1, -1, -1), and the period search is    *)
(* not invoked.                                                            *)
(***************************************************************************)
C27_ConstantOneShortcut == [][ConstantOneStep]_vars

\* a run has returned through the exit at a step n >= 2 with digits in the
\* buffer
C27_Witness ==
  /\ pc = "finally" /\ ~raised /\ Bn = B0(deg) /\ n >= 2
  /\ coef_seg # <<>>
  /\ periodic_reg = <<0, n>> /\ status_reg = <<-1, -1, -1>>

\* the blocks of a store, and where one ends
BlksOf(reg) == {reg[i] : i \in 1..Len(reg)}

EndOf(b) == b.startn + Len(b.seg) - 1

\* what the call made of the blocks of a store: before, after, principal
\* length
BlocksCut(before, after, L) ==
  /\ \A b \in BlksOf(before) :
       /\ L < b.startn => \A c \in BlksOf(after) : c.startn # b.startn
       /\ b.startn <= L /\ L < EndOf(b) =>
            /\ Blk(b.startn, SubSeq(b.seg, 1, L - b.startn + 1)) \in BlksOf(after)
            /\ b \notin BlksOf(after)
       /\ EndOf(b) <= L => b \in BlksOf(after)
  /\ Len(after) = Cardinality({b \in BlksOf(before) : b.startn <= L})

\* the result is the first L entries of what was stored
FirstEntries(before, after, L) ==
  /\ Len(Flat(before)) >= L
  /\ Flat(after) = SubSeq(Flat(before), 1, L)

\* the result is what was stored up to index L, all of it if that is less
EntriesUpTo(before, after, L) ==
  Flat(after) = SubSeq(Flat(before), 1, Min2(L, Len(Flat(before))))

TruncationStep ==
  /\ pc = "cl_poly" /\ pc' = "cl_coef" =>
       LET L == preperiod_len + period_len
       IN /\ BlocksCut(poly_orbit_reg, poly_orbit_reg', L)
          /\ FirstEntries(poly_orbit_reg, poly_orbit_reg', L)
  /\ pc = "cl_coef" /\ pc' = "pi_status" =>
       LET L == preperiod_len + period_len + 1
       IN /\ BlocksCut(coef_orbit_reg, coef_orbit_reg', L)
          /\ FirstEntries(coef_orbit_reg, coef_orbit_reg', L)

(***************************************************************************)
(* C28: _cleanup_register, for each of the two stores and its principal    *)
(* length L, removes every block that starts after index L, replaces the   *)
(* block that contains index L and extends beyond it by a block of its     *)
(* entries up to index L, leaves every block ending at or before L as it   *)
(* is, and the result is exactly the first L entries of the sequence       *)
(* stored before the call.                                                 *)
(***************************************************************************)
C28_CleanupTruncates == [][TruncationStep]_vars

\* the part of C28 the code keeps: the blocks are cut as said, and the
\* result is what was stored up to index L
BlocksCutStep ==
  /\ pc = "cl_poly" /\ pc' = "cl_coef" =>
       LET L == preperiod_len + period_len
       IN /\ BlocksCut(poly_orbit_reg, poly_orbit_reg', L)
          /\ FirstEntries(poly_orbit_reg, poly_orbit_reg', L)
  /\ pc = "cl_coef" /\ pc' = "pi_status" =>
       LET L == preperiod_len + period_len + 1
       IN /\ BlocksCut(coef_orbit_reg, coef_orbit_reg', L)
          /\ EntriesUpTo(coef_orbit_reg, coef_orbit_reg', L)

CleanupCutsBlocks == [][BlocksCutStep]_vars

\* the periods the search tries at the half index k: the divisors of k
Candidates(k_) == {p_ \in 1..k_ : k_ % p_ = 0}

\* one of them brings the polynomial the search was handed back
Matched ==
  \E p_ \in Candidates(n \div 2) : Bk = Stored(n \div 2 + p_)

\* the search was handed the stored B_k, and B_k = B_2k
GenuineMatch ==
  Bk = Stored(n \div 2) /\ Stored(n \div 2) = Stored(n)

(***************************************************************************)
(* C29: given a genuine match B_k = B_2k on a stored orbit,                *)
(* _calc_minimal_period finds a matching period and pre-period; if no      *)
(* candidate period matched it raises RuntimeError, no periodic record is  *)
(* written and the status is not set to the periodic sentinel.             *)
(***************************************************************************)
C29_LoudFailure ==
  /\ pc \in {"period_done", "finally"} /\ GenuineMatch =>
       /\ pc = "period_done" /\ ~raised
       /\ period_len \in Candidates(n \div 2)
       /\ Stored(n \div 2) = Stored(n \div 2 + period_len)
       /\ preperiod_len \in 0..(n \div 2 - 1)
       /\ Stored(preperiod_len + 1) = Stored(preperiod_len + 1 + period_len)
  /\ pc = "period_done" => Matched /\ ~raised
  /\ pc = "finally" => ~Matched /\ raised
  /\ raised =>
       /\ pc \in {"finally", "handler", "end"}
       /\ periodic_reg = <<-1, -1>>
       /\ status_reg # <<-1, -1, -1>>
       /\ preperiod_len = -1 /\ period_len = -1

\* the search was handed a polynomial that none of the candidates brings
\* back, and the RuntimeError has left calc_orbits
C29_Witness ==
  /\ pc = "end" /\ raised /\ n >= 4
  /\ Bk = <<0>>
  /\ periodic_reg = <<-1, -1>>

\* in a run the search is entered on a genuine match only: a step that has
\* appended B_n does not end in the RuntimeError
SearchSucceeds ==
  [][pc = "digit" /\ poly_seg' = Append(poly_seg, Bn') => pc' # "finally"]_vars

\* the value of a polynomial at an integer
RECURSIVE ValueFrom(_, _, _)
ValueFrom(B, t, i) ==
  IF i > Len(B) THEN 0 ELSE B[i] + t * ValueFrom(B, t, i + 1)

ValueAt(B, t) == ValueFrom(B, t, 1)

\* more points than a polynomial of degree 3 that is not zero has roots
Points == (-2)..2

\* the index of the highest coefficient that is not zero (-1 if there is
\* none)
HighestNonzero(B) ==
  IF \A i \in 1..Len(B) : B[i] = 0 THEN -1
  ELSE CHOOSE j \in 0..(Len(B) - 1) :
         B[j + 1] # 0 /\ \A i \in 0..(Len(B) - 1) : B[i + 1] # 0 => i <= j

(***************************************************************************)
(* C30: for a monic minimal polynomial of degree d, any B_{n-1} of degree  *)
(* <= d - 1 and any digit c_n, _calc_Bn returns x * B_{n-1}(x) - c_n       *)
(* reduced modulo the minimal polynomial, the multiple taken off being     *)
(* (coefficient of B_{n-1} at d - 1) * minimal polynomial, and nothing     *)
(* when that coefficient is zero; the result has degree <= d - 1 and its   *)
(* recorded degree is the index of its highest nonzero coefficient.        *)
(***************************************************************************)
C30_RecurrenceStep ==
  pc = "calc_Bn_done" =>
    LET d == Deg(beta.min_poly)
        lead == Bn_1[d]
    IN /\ Len(Bn) = d
       /\ \A t \in Points :
            ValueAt(Bn, t) =
              t * ValueAt(Bn_1, t) - cn - lead * ValueAt(beta.min_poly, t)
       /\ lead = 0 =>
            \A t \in Points : ValueAt(Bn, t) = t * ValueAt(Bn_1, t) - cn
       /\ calc_deg(Bn) <= d - 1
       /\ calc_deg(Bn) = HighestNonzero(Bn)

\* a step that took a multiple of a polynomial of degree 3 off and left a
\* polynomial of degree 2
C30_Witness ==
  /\ pc = "calc_Bn_done"
  /\ Deg(beta.min_poly) = 3 /\ Bn_1[3] = -2 /\ cn = 1
  /\ calc_deg(Bn) = 2
  /\ Bn # _calc_Bn_unreduced(Bn_1, cn, beta.min_poly)

\* the closed form of lines 628-633 on the iterate the step starts from
ClosedOffset ==
  1 + 2 * _base2_magn(deg) + _base2_magn(max_abs_coef(Bn_1))
    + deg * Base2MagnBetaCeilPlus1(beta)

(***************************************************************************)
(* C31: at the start of every step n, x_y_prec_offset equals               *)
(* 1 + 2*base2_magn(deg) + base2_magn(max_abs_coef(B_{n-1}))               *)
(* + deg*base2_magn(ceil(beta0)+1), whether the run reached the step       *)
(* uninterrupted, adding up the corrections of the steps, or was resumed   *)
(* at an earlier checkpoint and worked the offset out from the fetched     *)
(* iterate.                                                                *)
(***************************************************************************)
C31_OffsetPathIndependent ==
  pc \in {"loop", "digit", "round"} =>
    /\ Bn_1 = PolyAt(n - 1)
    /\ x_y_prec_offset = ClosedOffset

\* a resumed run stands at a step past its first one, with an offset that
\* is neither the one of B_0 nor the one it started from
C31_Witness ==
  /\ pc = "loop" /\ runs >= 2 /\ startn > 1 /\ n > startn
  /\ x_y_prec_offset # InitialOffset(B0(deg), beta)
  /\ x_y_prec_offset # InitialOffset(PolyAt(startn - 1), beta)

\* the status is the periodic sentinel exactly if the periodic record is set
SentinelAgrees ==
  (status_reg = <<-1, -1, -1>>) = (periodic_reg[1] # -1 /\ periodic_reg[2] # -1)

\* at most one of the precision-error index and the overflow index is set
OneFailureIndex == ~(status_reg[2] # -1 /\ status_reg[3] # -1)

(***************************************************************************)
(* C32: in every state between invocations, after an interruption or a     *)
(* repair included, the status of an orbit is (-1, -1, -1) if and only if  *)
(* its periodic record is set (both entries other than -1), and at most    *)
(* one of the precision-error index and the overflow index is other than   *)
(* -1.                                                                     *)
(***************************************************************************)
C32_SentinelAgrees ==
  pc = "idle" => SentinelAgrees /\ OneFailureIndex

\* the half of C32 that holds between invocations
OneFailureIndexBetween == pc = "idle" => OneFailureIndex

\* the program points of _single_orbit after its start-up
Computing == InTry \cup {"finally"}

(***************************************************************************)
(* C33: in every intermediate state of an orbit computation by             *)
(* _single_orbit, between any two writes to the stores, a non-negative     *)
(* computed_length of the status is at most the persisted length of the    *)
(* polynomial orbit and at most that of the digit orbit.                   *)
(***************************************************************************)
C33_StatusNotAhead ==
  pc \in Computing /\ status_reg[1] >= 0 =>
    /\ status_reg[1] <= Len(Flat(poly_orbit_reg))
    /\ status_reg[1] <= Len(Flat(coef_orbit_reg))

\* the same before the fallback of lines 752-816 and before
\* _cleanup_register
StatusNotAheadBefore ==
  pc \in {"prec0", "loop", "digit", "round", "ck_coef", "ck_poly",
          "ck_monotone", "ck_status", "ex_coef", "ex_poly", "ex_monotone",
          "ex_status", "ovf_coef", "ovf_poly", "ovf_status", "gt_coef",
          "gt_poly", "gt_status", "b1_poly", "b1_coef", "b0_poly", "b0_coef",
          "half_coef", "half_poly", "cl_poly"}
    /\ status_reg[1] >= 0 =>
      /\ status_reg[1] <= Len(Flat(poly_orbit_reg))
      /\ status_reg[1] <= Len(Flat(coef_orbit_reg))

\* c <= beta0 (a digit of the checked range is below a beta0 of 2^31 or more)
AtMostBeta0(c) ==
  IF beta.exp <= 0 THEN c * 2 ^ (-beta.exp) <= beta.man
  ELSE beta.exp >= 31 /\ beta.man >= 1

\* c = floor(x) for an x with a fractional scale
IsFloorOf(c, x) ==
  /\ x.exp < 0
  /\ c * 2 ^ (-x.exp) <= x.man
  /\ x.man < (c + 1) * 2 ^ (-x.exp)

DigitStep ==
  \* the digit of the step was appended
  /\ pc = "digit" /\ coef_seg' = Append(coef_seg, cn') =>
       /\ 0 <= cn' /\ AtMostBeta0(cn')
       /\ IsFloorOf(cn', xi)
  \* the computed digit exceeds beta0
  /\ pc = "digit" /\ pc' # "finally" /\ ~AtMostBeta0(cn') =>
       /\ pc' = "gt_coef"
       /\ UNCHANGED <<registers, bufs, Bn, Bn_1>>
  /\ pc = "gt_coef" /\ pc' = "gt_poly" =>
       Flat(coef_orbit_reg') = Flat(coef_orbit_reg) \o coef_seg
  /\ pc = "gt_poly" /\ pc' = "gt_status" =>
       Flat(poly_orbit_reg') = Flat(poly_orbit_reg) \o poly_seg
  /\ pc = "gt_status" /\ pc' = "finally" /\ ~raised' =>
       /\ status_reg' = <<n - 1, n, -1>>
       /\ Len(Flat(coef_orbit_reg')) = n - 1
       /\ Len(Flat(poly_orbit_reg')) = n - 1
       /\ periodic_reg' = <<-1, -1>>

(***************************************************************************)
(* C34: every digit c_n appended through the unambiguous path satisfies    *)
(* 0 <= c_n <= beta0 and equals floor(xi); a step whose computed digit     *)
(* exceeds beta0 appends nothing and ends the orbit with the status        *)
(* (n-1, n, -1).                                                           *)
(***************************************************************************)
C34_DigitRange == [][DigitStep]_vars

\* a digit other than 0 was appended at a step past the first, and another
\* run has ended at a digit above beta0
C34_Witness ==
  /\ pc = "finally" /\ ~raised /\ n >= 2
  /\ status_reg = <<n - 1, n, -1>>
  /\ ~AtMostBeta0(cn)
  /\ Len(Flat(coef_orbit_reg)) = n - 1

\* the coefficients of B_j have signs opposite to those of B_{j-1} and
\* strictly greater absolute values
Alternates(j) ==
  \A i \in 1..deg :
    /\ PolyAt(j)[i] * PolyAt(j - 1)[i] < 0
    /\ Abs(PolyAt(j)[i]) > Abs(PolyAt(j - 1)[i])

AlternatesUpTo(n_) == \A j \in deg..n_ : Alternates(j)

MonotoneStep ==
  \* the record written at the checkpoint of step n
  /\ pc = "ck_monotone" /\ pc' = "ck_status" =>
       /\ (monotone_reg'[1] = 1) = AlternatesUpTo(n)
       /\ monotone_reg'[1] # 1 => monotone_reg' = <<0, -1>>
  \* the flag does not come back
  /\ monotone_reg[1] = 0 => monotone_reg'[1] = 0

(***************************************************************************)
(* C35: the flag of the monotonicity record stays 1 after the steps up to  *)
(* n if and only if for every step j with deg <= j <= n and every          *)
(* coefficient position i < deg the coefficient of B_j at i has the sign   *)
(* opposite to that of B_{j-1} at i and a strictly greater absolute value; *)
(* once the flag is 0 it stays 0 and the record written is (0, -1).        *)
(***************************************************************************)
C35_AlternatingMonotonic == [][MonotoneStep]_vars

\* the half of C35 the code keeps
FlagStaysDown ==
  [][/\ monotone_reg[1] = 0 => monotone_reg'[1] = 0
     /\ monotone_reg'[1] = 0 => monotone_reg' = <<0, -1>>]_vars

\* the computed lengths of the orbits of the group that are not negative
NonNegLengths(blks) ==
  {len \in UNION {{blks[b].seg[j][1] : j \in 1..Len(blks[b].seg)} :
                    b \in 1..Len(blks)} : len >= 0}

\* m is the summary of the group
IsMinLen(m, blks) ==
  IF NonNegLengths(blks) = {} THEN m = -1
  ELSE m \in NonNegLengths(blks) /\ \A len \in NonNegLengths(blks) : m <= len

SummaryStep ==
  \* _update_status_reg_apos returns
  /\ wpc[0] = "set_apos" /\ wpc'[0] = "min_len" =>
       IsMinLen(apos_min_len', status_blks')
  \* lines 151-154: the group is skipped
  /\ \A p \in Procs :
       wpc[p] = "min_len" /\ wpc'[p] # "min_len" =>
         (wpc'[p] = "done") = (apos_min_len = -1 \/ apos_min_len >= max_orbit_len)

(***************************************************************************)
(* C36: after _update_status_reg_apos, min_len of a group is the minimum   *)
(* of the non-negative computed_length values over all its orbits, and -1  *)
(* when it has no orbit with a non-negative computed_length; calc_orbits   *)
(* skips a group exactly when min_len is -1 or min_len >= max_orbit_len.   *)
(***************************************************************************)
C36_SummaryAggregate == [][SummaryStep]_vars

\* the same for a pass that no other process has written into
SummaryStepAlone ==
  /\ wpc[0] = "set_apos" /\ wpc'[0] = "min_len" /\ writers = {} =>
       IsMinLen(apos_min_len', status_blks')
  /\ \A p \in Procs :
       wpc[p] = "min_len" /\ wpc'[p] # "min_len" =>
         (wpc'[p] = "done") = (apos_min_len = -1 \/ apos_min_len >= max_orbit_len)

SummaryAlone == [][SummaryStepAlone]_vars

(***************************************************************************)
(* calc_orbits_resetup (lines 395-447), called by one process.             *)
(***************************************************************************)
\* the groups of perron_polys_reg, in the order the register yields them
Apris == <<0, 1>>

\* the k-th interval <<startn, length>> a group may hold
IntervalAt(k) == <<(k - 1) + (k \div 2), 1 + (k % 2)>>

Intervals == {IntervalAt(k) : k \in 1..MaxIntervals}

\* lines 432-435
FreshSeg(length) == [j \in 1..length |-> <<0, -1, -1>>]

\* a segment calc_orbits has worked on: a periodic orbit, then checkpoints
WorkedSeg(length) ==
  [j \in 1..length |-> IF j = 1 THEN <<-1, -1, -1>> ELSE <<3, -1, -1>>]

\* lines 461-464: DataNotFoundError, no apos has been set
NoApos == -2

\* lines 466-485 for the blocks of one apri
AposMinLen(blks) ==
  LET lens == {len \in UNION {{blks[int_][j][1] : j \in 1..Len(blks[int_])} :
                                int_ \in DOMAIN blks} : len >= 0}
  IN IF lens = {} THEN -1
     ELSE CHOOSE m \in lens : \A len \in lens : m <= len

\* line 429 with every interval of perron_polys_reg taken as missing
MissingInts_all(perron_ints, status_ints) == perron_ints

\* line 429
MissingInts(perron_ints, status_ints) ==
  {int_ \in perron_ints : int_ \notin status_ints}

\* lines 421-423
StrayInts(perron_ints, status_ints) ==
  {int_ \in status_ints : int_ \notin perron_ints}

\* lines 431-438
AddBlks(blks, ints) ==
  [int_ \in DOMAIN blks \cup ints |->
     IF int_ \in ints THEN FreshSeg(int_[2]) ELSE blks[int_]]

InitResetup ==
  /\ poly_orbit_reg = <<>> /\ coef_orbit_reg = <<>>
  /\ status_reg = <<0, -1, -1>>
  /\ periodic_reg = <<-1, -1>>
  /\ monotone_reg = <<1, 0>>
  /\ min_len = 0
  /\ mp_prec = DefaultPrec
  /\ runs = 0
  /\ max_blk_len = 0 /\ max_orbit_len = 0 /\ max_dps = 0
  /\ proc_index = 0
  /\ beta = Betas[1]
  /\ pc = "idle" /\ raised = FALSE
  /\ LocalsUnset
  /\ repaired = FALSE
  /\ trail = <<>>
  /\ WorkersUnset /\ PolysUnset
  /\ perron_polys_reg \in [1..Len(Apris) -> SUBSET Intervals]
  /\ \E have \in [1..Len(Apris) -> SUBSET Intervals] :
       status_reg_blks \in
         {b \in [1..Len(Apris) ->
                   UNION {[ints -> {FreshSeg(1), FreshSeg(2), WorkedSeg(1),
                                    WorkedSeg(2)}] : ints \in SUBSET Intervals}] :
            \A a \in 1..Len(Apris) :
              /\ DOMAIN b[a] = have[a]
              /\ \A int_ \in have[a] : Len(b[a][int_]) = int_[2]}
  \* no apos yet, or those of an earlier pass
  /\ \/ status_reg_apos = [a \in 1..Len(Apris) |-> NoApos]
     \/ status_reg_apos = [a \in 1..Len(Apris) |-> AposMinLen(status_reg_blks[a])]
  /\ apris_left = <<>> /\ missing_ints = {}

\* everything but the registers of calc_orbits_resetup, its position and the
\* number of calls
others ==
  <<registers, min_len, mp_prec, max_blk_len, max_orbit_len, max_dps,
    proc_index, beta, locals, history, num_procs, outcomes, status_blks,
    orbit_recs, apos_min_len, apos_update, wpc, wmin, wblk, wtodo, owners,
    writers, apos_writers, early_readers, polys>>

\* lines 404-411: the call, up to the loop over the apris
CallResetup ==
  /\ pc = "idle"
  /\ runs < MaxCalls
  /\ runs' = runs + 1
  /\ raised' = FALSE
  /\ apris_left' = [a \in 1..Len(Apris) |-> a]
  /\ pc' = "resetup"
  /\ UNCHANGED <<others, perron_polys_reg, status_reg_blks, status_reg_apos,
                 missing_ints>>

\* lines 411-438: one turn of the loop
ResetupApri ==
  /\ pc = "resetup"
  /\ apris_left # <<>>
  /\ LET apri == Head(apris_left)
         perron_polys_reg_ints == perron_polys_reg[apri]
         status_reg_ints == DOMAIN status_reg_blks[apri]
     IN IF StrayInts(perron_polys_reg_ints, status_reg_ints) # {}
          THEN /\ raised' = TRUE
               /\ pc' = "idle"
               /\ UNCHANGED <<status_reg_blks, missing_ints, apris_left>>
          ELSE /\ missing_ints' =
                    MissingInts(perron_polys_reg_ints, status_reg_ints)
               /\ status_reg_blks' =
                    [status_reg_blks EXCEPT
                       ![apri] = AddBlks(@, missing_ints')]
               /\ apris_left' = Tail(apris_left)
               /\ UNCHANGED <<pc, raised>>
  /\ UNCHANGED <<others, runs, perron_polys_reg, status_reg_apos>>

\* line 440: _update_status_reg_apos, then the return
ResetupApos ==
  /\ pc = "resetup"
  /\ apris_left = <<>>
  /\ status_reg_apos' =
       [a \in 1..Len(Apris) |-> AposMinLen(status_reg_blks[a])]
  /\ pc' = "idle"
  /\ UNCHANGED <<others, runs, raised, perron_polys_reg, status_reg_blks,
                 apris_left, missing_ints>>

NextResetup == CallResetup \/ ResetupApri \/ ResetupApos

SpecResetup == InitResetup /\ [][NextResetup]_vars

\* the step is one turn of the loop of calc_orbits_resetup, on apri
TurnOn(apri) ==
  pc = "resetup" /\ apris_left # <<>> /\ Head(apris_left) = apri

\* status_reg holds an interval of apri that is not in perron_polys_reg
HoldsStray(apri) ==
  \E int_ \in DOMAIN status_reg_blks[apri] : int_ \notin perron_polys_reg[apri]

\* a block of (0, -1, -1) for exactly the intervals without a status block
CreatesMissing(apri) ==
  /\ DOMAIN status_reg_blks'[apri] =
       DOMAIN status_reg_blks[apri] \cup perron_polys_reg[apri]
  /\ \A int_ \in perron_polys_reg[apri] \ DOMAIN status_reg_blks[apri] :
       /\ Len(status_reg_blks'[apri][int_]) = int_[2]
       /\ \A j \in 1..int_[2] : status_reg_blks'[apri][int_][j] = <<0, -1, -1>>

\* every status block there is stays as it is
KeepsExisting ==
  \A apri \in 1..Len(Apris) : \A int_ \in DOMAIN status_reg_blks[apri] :
    /\ int_ \in DOMAIN status_reg_blks'[apri]
    /\ status_reg_blks'[apri][int_] = status_reg_blks[apri][int_]

\* a call that follows a call changes nothing
SecondCallIdle ==
  runs >= 2 /\ pc = "resetup" =>
    /\ status_reg_blks' = status_reg_blks
    /\ status_reg_apos' = status_reg_apos

ResetupStep ==
  /\ KeepsExisting
  /\ SecondCallIdle
  /\ \A apri \in 1..Len(Apris) :
       TurnOn(apri) =>
         IF HoldsStray(apri)
           THEN raised' /\ pc' = "idle" /\ status_reg_blks' = status_reg_blks
           ELSE ~raised' /\ CreatesMissing(apri)

(***************************************************************************)
(* C37: calc_orbits_resetup creates a status block initialised to          *)
(* (0, -1, -1) for exactly those intervals of perron_polys_reg that have   *)
(* no status block, leaves every existing status block unchanged, changes  *)
(* nothing when it is called a second time, and raises RuntimeError        *)
(* without adding blocks for a group whose status_reg holds an interval    *)
(* that is not in perron_polys_reg.                                        *)
(***************************************************************************)
C37_ResetupPreservesProgress == [][ResetupStep]_vars

\* a call has returned that added a block to a group which held a block
\* calc_orbits had worked on
C37_Witness ==
  /\ pc = "idle" /\ runs = 1 /\ ~raised
  /\ missing_ints # {}
  /\ status_reg_apos[Len(Apris)] = 0
  /\ \E int_ \in DOMAIN status_reg_blks[Len(Apris)] :
       status_reg_blks[Len(Apris)][int_][1] = <<-1, -1, -1>>

(***************************************************************************)
(* Int_Polynomial (part_005): set_coef and trim on two objects.            *)
(***************************************************************************)
\* the coefficients the objects are built from and given
PolyCoefs == {-1, 0, 1}

Names == {"a", "b"}

\* lines 109-110
get_deg(p) == p._deg

\* lines 250-265, for i >= 0
get_coef(p, i) ==
  IF get_deg(p) < 0 THEN 0
  ELSE IF i <= get_deg(p)
    THEN IF p._is_natural THEN p._coefs[i + 1]
         ELSE p._coefs[get_deg(p) - i + p._start_index + 1]
    ELSE 0

\* lines 91-95: the count of the loop, from its turn i on
RECURSIVE Less(_, _, _)
Less(p, deg_, i) ==
  IF i > deg_ THEN 0
  ELSE IF get_coef(p, deg_ - i) = 0 THEN 1 + Less(p, deg_, i + 1)
  ELSE 0

\* lines 83-101
trim(p) ==
  IF get_deg(p) < 0 THEN p
  ELSE LET less == Less(p, get_deg(p), 0)
       IN [p EXCEPT !._deg = @ - less,
                    !._start_index = IF p._is_natural THEN @ ELSE @ + less]

\* lines 43-72
_init(coefs, is_natural) ==
  trim([_coefs |-> coefs, _deg |-> Len(coefs) - 1, _max_deg |-> Len(coefs) - 1,
        _is_natural |-> is_natural, _start_index |-> 0])

\* line 237
IndexError(p, i) == ~(0 <= i /\ i <= p._max_deg)

\* lines 239-246, for an index that passes line 237
set_coef(p, i, coef) ==
  LET written == IF p._is_natural
                   THEN [p EXCEPT !._coefs[i + 1] = coef]
                   ELSE [p EXCEPT
                           !._coefs[get_deg(p) - i + p._start_index + 1] = coef]
  IN IF coef # 0 /\ i > p._deg
       THEN [written EXCEPT !._deg = i,
                            !._start_index = IF p._is_natural THEN @
                                             ELSE p._max_deg - i]
       ELSE written

\* lines 193-201
eq(p, other) ==
  /\ get_deg(p) = get_deg(other)
  /\ \A i \in 0..get_deg(p) : get_coef(p, i) = get_coef(other, i)

InitPoly ==
  /\ poly_orbit_reg = <<>> /\ coef_orbit_reg = <<>>
  /\ status_reg = <<0, -1, -1>>
  /\ periodic_reg = <<-1, -1>>
  /\ monotone_reg = <<1, 0>>
  /\ min_len = 0
  /\ mp_prec = DefaultPrec
  /\ runs = 0
  /\ max_blk_len = 0 /\ max_orbit_len = 0 /\ max_dps = 0
  /\ proc_index = 0
  /\ beta = Betas[1]
  /\ pc = "poly" /\ raised = FALSE
  /\ LocalsUnset
  /\ repaired = FALSE
  /\ trail = <<>>
  /\ WorkersUnset /\ ResetupUnset
  /\ \E ca \in [1..(MaxDeg + 1) -> PolyCoefs],
        cb \in [1..(MaxDeg + 1) -> PolyCoefs], na \in BOOLEAN, nb \in BOOLEAN :
       polys = [name \in Names |->
                  IF name = "a" THEN _init(ca, na) ELSE _init(cb, nb)]

\* everything but the objects and the exception
rest ==
  <<registers, min_len, mp_prec, runs, max_blk_len, max_orbit_len, max_dps,
    proc_index, beta, pc, locals, history, num_procs, outcomes, status_blks,
    orbit_recs, apos_min_len, apos_update, wpc, wmin, wblk, wtodo, owners,
    writers, apos_writers, early_readers, resetup>>

\* lines 234-246
SetCoef ==
  \E name \in Names, i \in (-1)..(MaxDeg + 1), coef \in PolyCoefs :
    /\ pc = "poly"
    /\ IF IndexError(polys[name], i)
         THEN /\ raised' = TRUE
              /\ UNCHANGED polys
         ELSE /\ raised' = FALSE
              /\ polys' = [polys EXCEPT ![name] = set_coef(@, i, coef)]
    /\ UNCHANGED rest

\* lines 83-101
Trim ==
  \E name \in Names :
    /\ pc = "poly"
    /\ polys' = [polys EXCEPT ![name] = trim(@)]
    /\ raised' = FALSE
    /\ UNCHANGED rest

NextPoly == SetCoef \/ Trim

SpecPoly == InitPoly /\ [][NextPoly]_vars

\* the index of the highest nonzero coefficient, -1 for the zero polynomial
TopIndex(p) ==
  IF \A i \in 0..p._max_deg : get_coef(p, i) = 0 THEN -1
  ELSE CHOOSE j \in 0..p._max_deg :
         /\ get_coef(p, j) # 0
         /\ \A i \in 0..p._max_deg : get_coef(p, i) # 0 => i <= j

SameCoefs(p, other) ==
  \A i \in 0..MaxDeg : get_coef(p, i) = get_coef(other, i)

(***************************************************************************)
(* C38: after any sequence of set_coef and trim operations on an           *)
(* Int_Polynomial, get_deg() equals the index of its highest nonzero       *)
(* coefficient (-1 for the zero polynomial), so that eq(a, b) holds        *)
(* exactly when a and b have the same coefficients.                        *)
(***************************************************************************)
C38_DegreeNeverStale ==
  pc = "poly" =>
    /\ \A name \in Names : get_deg(polys[name]) = TopIndex(polys[name])
    /\ eq(polys["a"], polys["b"]) = SameCoefs(polys["a"], polys["b"])

\* what set_coef and trim do keep: the degree is never below the highest
\* nonzero coefficient, no coefficient is stored above it (deg + start_index
\* is max_deg in the reversed layout), and objects that are eq have the same
\* coefficients
DegreeNotBelow ==
  pc = "poly" =>
    /\ \A name \in Names :
         LET p == polys[name]
         IN /\ get_deg(p) >= TopIndex(p) /\ get_deg(p) <= p._max_deg
            /\ p._is_natural =>
                 \A i \in 0..p._max_deg : i > get_deg(p) => p._coefs[i + 1] = 0
            /\ ~p._is_natural => get_deg(p) + p._start_index = p._max_deg
    /\ eq(polys["a"], polys["b"]) => SameCoefs(polys["a"], polys["b"])

\* trim recomputes the degree
TrimStep ==
  \A name \in Names :
    polys'[name] = trim(polys[name]) /\ polys'[name] # polys[name] =>
      get_deg(polys'[name]) = TopIndex(polys'[name])

TrimRecomputes == [][TrimStep]_vars

=============================================================================
